---- MODULE Spec2Model ----
(***************************************************************************)
(* Model of the storage adapters (Dropbox, OneDrive, Google Drive, Azure)  *)
(* and of the usePerformanceMetrics hook of simula/huldra-students         *)
(* (mohammad-mainul-hasan).                                                *)
(*                                                                         *)
(* Several specifications share the variables below:                       *)
(*   SpecCheck    one call of an adapter's checkAssets                     *)
(*   SpecValidate one call of an adapter's validateCases (Promise.all)     *)
(*   SpecFetch    one call of an adapter's fetchCases                      *)
(*   SpecHook     one session of the usePerformanceMetrics hook            *)
(*   SpecList     one directory listing of an adapter, served in pages     *)
(*   SpecMeasure  the measurement of one URL by the hook's capture pass    *)
(*   SpecGeo      the lookupGeo calls of one process                       *)
(*   SpecUpload   the uploadFile calls of an adapter to one backend        *)
(*   SpecUrl      one getAssetDownloadUrl call of an adapter               *)
(*   SpecHookLive SpecHook with every awaited operation settling           *)
(*   SpecAzure    one checkAssetsInAzure call over a blob container        *)
(*   SpecInit     the initializeGoogleDrive calls of one process           *)
(*   SpecSize     the construction of SIZE_MAP and the records' size field *)
(* A specification leaves the variables of the others at their idle value. *)
(*                                                                         *)
(* A case name such as "image-1" is the sequence of its '-'-separated      *)
(* segments, <<"image", "1">>, so that name.split("-")[0] is Head(name).   *)
(***************************************************************************)
EXTENDS Integers, Sequences, FiniteSets, TLC

VARIABLES
    chk,            \* the checkAssets call in progress (SpecCheck)
    vc,             \* the validateCases call in progress (SpecValidate)
    fc,             \* the fetchCases call in progress (SpecFetch)
    mounted,        \* the hook's component is mounted
    currentRoute,   \* prop currentRoute
    location,       \* useState location
    geoPending,     \* the lookupGeo() promise of the mount effect is pending
    recorded,       \* useRef recorded: the set of URLs already seen
    allMetrics,     \* useState allMetrics: the session log
    hasDownloaded,  \* useRef hasDownloaded
    passes,         \* the capture() calls started so far, by number
    exports,        \* the CSV documents materialized so far (a.click())
    timed,          \* history: how often each URL entered the timing loop
    endVisits,      \* history: navigations to the terminal route made with
                    \* hasDownloaded already set
    ls,             \* the directory listing call in progress (SpecList)
    ms,             \* the measurement of one URL in progress (SpecMeasure)
    lg,             \* module perfHelpers: _geoCache and the lookupGeo calls (SpecGeo)
    up,             \* the upload calls and the backend's objects (SpecUpload)
    du,             \* the getDownloadUrl call in progress (SpecUrl)
    az,             \* the Azure container and the checkAssetsInAzure call (SpecAzure)
    gi,             \* module googledrive: gapiInitialized and its callers (SpecInit)
    sz              \* the file whose size label is looked up (SpecSize)

hookVars == <<mounted, currentRoute, location, geoPending, recorded, allMetrics,
              hasDownloaded, passes, exports, timed, endVisits>>
oldVars == <<chk, vc, fc, hookVars>>
extVars == <<ls, ms, lg, up, du, az, gi, sz>>
vars == <<oldVars, extVars>>

----------------------------------------------------------------------------
(* Bounds of the model *)

\* the largest number of files a folder listing returns in SpecCheck
MaxFiles == 4
\* the longest list of case names passed to validateCases / fetchCases
MaxCases == 3

----------------------------------------------------------------------------
(* JavaScript helpers *)

Range(s) == {s[i] : i \in 1..Len(s)}

SeqsUpTo(S, n) == UNION {[1..k -> S] : k \in 0..n}

RECURSIVE SelectIdx(_, _, _)
\* the elements s[i], i >= from, whose index satisfies keep[i], in order
SelectIdx(s, keep, from) ==
    IF from > Len(s) THEN <<>>
    ELSE IF keep[from] THEN <<s[from]>> \o SelectIdx(s, keep, from + 1)
    ELSE SelectIdx(s, keep, from + 1)

\* number of occurrences of x in s
Count(s, x) == Cardinality({i \in 1..Len(s) : s[i] = x})

\* String.prototype.toLowerCase on the segments the model uses
toLowerCase(s) ==
    CASE s = "Audio" -> "audio"
      [] s = "Video" -> "video"
      [] s = "IMAGE" -> "image"
      [] OTHER -> s

\* JavaScript truthiness. A JavaScript value is written as the text of its
\* literal: "false" and "true" are the booleans, "undefined" is undefined, and
\* every other text is the (non-empty) string or the object it names.
Truthy(v) == v \notin {"false", "undefined", "null", "0", ""}

----------------------------------------------------------------------------
(* The adapters *)

Adapters == {"dropbox", "onedrive", "googledrive", "azure"}

\* the case types the switch of checkAssets knows
KnownTypes == {"image", "audio", "video", "text", "hybrid"}

\* mutant: the image threshold is compared with > instead of >=
checkAssetsInAzure_StrictImage(n, caseType) ==
    CASE caseType = "image" -> n > 3
      [] caseType \in {"audio", "video", "text"} -> n >= 2
      [] caseType = "hybrid" -> n >= 3
      [] OTHER -> FALSE

\* the switch of each adapter's checkAssets over the listed file count n
checkAssets(n, caseType) ==
    CASE caseType = "image" -> n >= 3
      [] caseType \in {"audio", "video", "text"} -> n >= 2
      [] caseType = "hybrid" -> n >= 3
      [] OTHER -> FALSE

checkAssetsInOneDrive(n, caseType) ==
    CASE caseType = "image" -> n >= 3
      [] caseType \in {"audio", "video", "text"} -> n >= 2
      [] caseType = "hybrid" -> n >= 3
      [] OTHER -> FALSE

checkAssetsInGoogleDrive(n, caseType) ==
    CASE caseType = "image" -> n >= 3
      [] caseType \in {"audio", "video", "text"} -> n >= 2
      [] caseType = "hybrid" -> n >= 3
      [] OTHER -> FALSE

checkAssetsInAzure(n, caseType) ==
    CASE caseType = "image" -> n >= 3
      [] caseType \in {"audio", "video", "text"} -> n >= 2
      [] caseType = "hybrid" -> n >= 3
      [] OTHER -> FALSE

\* the checkAssets of the adapter chosen at composition time
CheckAssetsOf(adapter, n, caseType) ==
    CASE adapter = "dropbox" -> checkAssets(n, caseType)
      [] adapter = "onedrive" -> checkAssetsInOneDrive(n, caseType)
      [] adapter = "googledrive" -> checkAssetsInGoogleDrive(n, caseType)
      [] adapter = "azure" -> checkAssetsInAzure(n, caseType)

----------------------------------------------------------------------------
(* Idle values: what a specification leaves the other calls at *)

IdleCall == [pc |-> "idle"]

HookIdle ==
    /\ mounted = FALSE
    /\ currentRoute = "none"
    /\ location = [country |-> "Unknown", continent |-> "Unknown", ref |-> "initial"]
    /\ geoPending = FALSE
    /\ recorded = {}
    /\ allMetrics = <<>>
    /\ hasDownloaded = FALSE
    /\ passes = <<>>
    /\ exports = <<>>
    /\ timed = <<>>
    /\ endVisits = 0

OldIdle ==
    /\ chk = IdleCall
    /\ vc = IdleCall
    /\ fc = IdleCall
    /\ HookIdle

ExtIdle ==
    /\ ls = IdleCall
    /\ ms = IdleCall
    /\ lg = IdleCall
    /\ up = IdleCall
    /\ du = IdleCall
    /\ az = IdleCall
    /\ gi = IdleCall
    /\ sz = IdleCall

----------------------------------------------------------------------------
(* SpecCheck: one call checkAssets(folderPath, caseType) of an adapter *)

\* the caseType arguments tried: the five known types and two unknown ones
CaseTypeArgs == KnownTypes \cup {"pdf", "undefined"}

InitCheck ==
    /\ chk \in [adapter : Adapters, caseType : CaseTypeArgs, pc : {"listing"},
                n : {0}, listed : {FALSE}, result : {FALSE}]
    /\ vc = IdleCall
    /\ fc = IdleCall
    /\ HookIdle
    /\ ExtIdle

\* await listFiles(folderPath) resolves with n files; the switch decides
CheckListingResolves(n) ==
    /\ chk.pc = "listing"
    /\ chk' = [chk EXCEPT !.pc = "returned", !.n = n, !.listed = TRUE,
                          !.result = CheckAssetsOf(chk.adapter, n, chk.caseType)]
    /\ UNCHANGED <<vc, fc, hookVars, extVars>>

\* await listFiles(folderPath) rejects; checkAssets has no catch
CheckListingFails ==
    /\ chk.pc = "listing"
    /\ chk' = [chk EXCEPT !.pc = "threw"]
    /\ UNCHANGED <<vc, fc, hookVars, extVars>>

NextCheck ==
    \/ \E n \in 0..MaxFiles : CheckListingResolves(n)
    \/ CheckListingFails

SpecCheck == InitCheck /\ [][NextCheck]_vars

----------------------------------------------------------------------------
(* C4: for every adapter and every listed file count n, checkAssets returns  *)
(* true iff n >= 3 for image or hybrid, true iff n >= 2 for audio, video or  *)
(* text, and false for any other caseType; the call throws only when the     *)
(* listing itself failed, never because of the caseType.                     *)
C4_CheckAssetsThreshold ==
    /\ chk.pc = "returned" =>
        chk.result = (CASE chk.caseType \in {"image", "hybrid"} -> chk.n >= 3
                        [] chk.caseType \in {"audio", "video", "text"} -> chk.n >= 2
                        [] OTHER -> FALSE)
    /\ chk.pc = "threw" => ~chk.listed

\* an image folder with exactly 3 files has been accepted by the Azure adapter
C4_Witness ==
    /\ chk.pc = "returned"
    /\ chk.adapter = "azure"
    /\ chk.caseType = "image"
    /\ chk.n = 3
    /\ chk.result = TRUE

----------------------------------------------------------------------------
(* The backend the adapters are pointed at: the folder /gallery/cases holds  *)
(* one sub-folder per case and one plain file.                               *)

CaseNames ==
    { <<"image", "1">>, <<"image", "2">>, <<"hybrid", "1">>, <<"Video", "1">>,
      <<"audio", "1">>, <<"text", "1">>, <<"misc", "1">>,
      <<"constructor", "1">> }

\* the number of files the backend holds in /gallery/cases/<name>
FilesIn(name) ==
    CASE name = <<"image", "1">> -> 3
      [] name = <<"image", "2">> -> 2
      [] name = <<"hybrid", "1">> -> 3
      [] name = <<"Video", "1">> -> 2
      [] name = <<"audio", "1">> -> 2
      [] name = <<"text", "1">> -> 2
      [] name = <<"misc", "1">> -> 3
      [] name = <<"constructor", "1">> -> 3
      [] OTHER -> 0

\* the object literal { audio, video, hybrid, text } indexed by a prefix:
\* an own key gives its value, "constructor" and "__proto__" reach
\* Object.prototype, any other key is undefined
lookup(prefix) ==
    CASE prefix \in {"audio", "video", "hybrid", "text"} -> prefix
      [] prefix \in {"constructor", "__proto__"} -> "[object]"
      [] OTHER -> "undefined"

\* lookup[name.split("-")[0].toLowerCase()] || "image"
CaseTypeOfName(name) ==
    LET l == lookup(toLowerCase(Head(name)))
    IN IF Truthy(l) THEN l ELSE "image"

\* mutant: the results are stored in completion order, not by index
PromiseAllStore_CompletionOrder(values, i, v) ==
    LET free == {j \in DOMAIN values : ~values[j].set}
        j == CHOOSE k \in free : \A m \in free : k <= m
    IN [values EXCEPT ![j] = [set |-> TRUE, v |-> v]]

\* Promise.all keeps the value of its i-th promise at index i of its result
\* array (a slot is [set, v]: whether it is filled, and with what)
PromiseAllStore(values, i, v) == [values EXCEPT ![i] = [set |-> TRUE, v |-> v]]

----------------------------------------------------------------------------
(* SpecValidate: one call validateCases(cases) of an adapter.                *)
(* cases.map starts every check at once; each check awaits its own listing.  *)

InitValidate ==
    /\ vc \in [adapter : Adapters, cases : SeqsUpTo(CaseNames, MaxCases),
               pc : {"start"}, status : {<<>>}, returned : {<<>>},
               values : {<<>>}, order : {<<>>}, flags : {<<>>}]
    /\ chk = IdleCall
    /\ fc = IdleCall
    /\ HookIdle
    /\ ExtIdle

\* validateCases(cases): cases.map issues one checkAssets call per case, each
\* runs up to its await of the listing; Promise.all of no promise resolves to []
ValidateStart ==
    /\ vc.pc = "start"
    /\ vc' = [vc EXCEPT
                !.pc = IF Len(vc.cases) = 0 THEN "resolved" ELSE "pending",
                !.status = [i \in 1..Len(vc.cases) |-> "pending"],
                !.returned = [i \in 1..Len(vc.cases) |-> FALSE],
                !.values = [i \in 1..Len(vc.cases) |-> [set |-> FALSE, v |-> FALSE]]]
    /\ UNCHANGED <<chk, fc, hookVars, extVars>>

\* the listing of case i resolves: its checkAssets returns, Promise.all stores
\* the value and resolves when it was the last one outstanding
CheckSettlesOk(i) ==
    /\ vc.pc \in {"pending", "rejected"}
    /\ i \in DOMAIN vc.status
    /\ vc.status[i] = "pending"
    /\ LET name == vc.cases[i]
           flag == CheckAssetsOf(vc.adapter, FilesIn(name), CaseTypeOfName(name))
           vals == PromiseAllStore(vc.values, i, flag)
           last == \A j \in DOMAIN vc.status : j # i => vc.status[j] = "ok"
       IN vc' = [vc EXCEPT
                   !.status[i] = "ok",
                   !.returned[i] = flag,
                   !.order = IF vc.pc = "pending" THEN Append(@, i) ELSE @,
                   !.values = IF vc.pc = "pending" THEN vals ELSE @,
                   !.pc = IF vc.pc = "pending" /\ last THEN "resolved" ELSE @,
                   !.flags = IF vc.pc = "pending" /\ last
                             THEN [j \in DOMAIN vals |-> vals[j].v] ELSE @]
    /\ UNCHANGED <<chk, fc, hookVars, extVars>>

\* mutant: the failure of a listing is caught and counted as "not valid"
CheckSettlesFailed_Absorbed(i) ==
    /\ vc.pc \in {"pending", "rejected"}
    /\ i \in DOMAIN vc.status
    /\ vc.status[i] = "pending"
    /\ LET vals == PromiseAllStore(vc.values, i, FALSE)
           last == \A j \in DOMAIN vc.status : j # i => vc.status[j] # "pending"
       IN vc' = [vc EXCEPT
                   !.status[i] = "failed",
                   !.order = Append(@, i),
                   !.values = vals,
                   !.pc = IF last THEN "resolved" ELSE @,
                   !.flags = IF last THEN [j \in DOMAIN vals |-> vals[j].v] ELSE @]
    /\ UNCHANGED <<chk, fc, hookVars, extVars>>

\* the listing of case i rejects (auth, network, not-found): checkAssets has
\* no catch, and Promise.all rejects with the first rejection
CheckSettlesFailed(i) ==
    /\ vc.pc \in {"pending", "rejected"}
    /\ i \in DOMAIN vc.status
    /\ vc.status[i] = "pending"
    /\ vc' = [vc EXCEPT !.status[i] = "failed",
                        !.order = IF vc.pc = "pending" THEN Append(@, i) ELSE @,
                        !.pc = "rejected"]
    /\ UNCHANGED <<chk, fc, hookVars, extVars>>

NextValidate ==
    \/ ValidateStart
    \/ \E i \in 1..MaxCases : CheckSettlesOk(i)
    \/ \E i \in 1..MaxCases : CheckSettlesFailed(i)

SpecValidate == InitValidate /\ [][NextValidate]_vars

----------------------------------------------------------------------------
(* C5: validateCases resolves with a boolean sequence as long as its input,  *)
(* whose element i is the value the check of input element i returned, in    *)
(* whatever order the concurrent listings completed.                         *)
C5_FlagsAlignedWithInput ==
    vc.pc = "resolved" =>
        /\ Len(vc.flags) = Len(vc.cases)
        /\ \A i \in 1..Len(vc.cases) :
              /\ vc.status[i] = "ok"
              /\ vc.flags[i] = vc.returned[i]

\* three checks completed last-to-first and gave different flags
C5_Witness ==
    /\ vc.pc = "resolved"
    /\ Len(vc.cases) = 3
    /\ vc.order = <<3, 2, 1>>
    /\ vc.flags[1] # vc.flags[3]

----------------------------------------------------------------------------
(* C6: when the listing of one case fails during validateCases, the promise  *)
(* of validateCases rejects: the batch as a whole fails and no flag is       *)
(* returned for any case, also not for the cases whose check succeeded; and  *)
(* the batch fails only in that case.                                        *)
SomeCheckFailed == \E i \in DOMAIN vc.status : vc.status[i] = "failed"

----------------------------------------------------------------------------
\* the checks of the call that are still awaiting their listing
ChecksPending == {i \in DOMAIN vc.status : vc.status[i] = "pending"}

\* the promise validateCases returned has settled: the caller's await is over
ValidateOver == vc.pc \in {"resolved", "rejected"}

(* C32: validateCases starts the check of every case before the result of   *)
(* any of them is awaited (no check is started after another check's result *)
(* was consumed), and it returns only after every per-case check has        *)
(* settled.                                                                  *)
C32_AsClaimed ==
    /\ vc.pc \in {"pending", "resolved", "rejected"} =>
          DOMAIN vc.status = 1..Len(vc.cases)
    /\ ValidateOver => ChecksPending = {}

\* what does hold: all checks are started together, and a batch that
\* resolves has waited for every one of them
C32_FanOutAndJoinOnSuccess ==
    /\ vc.pc \in {"pending", "resolved", "rejected"} =>
          DOMAIN vc.status = 1..Len(vc.cases)
    /\ vc.pc = "resolved" => ChecksPending = {}

----------------------------------------------------------------------------
\* the case type the name's prefix stands for: one of audio, video, hybrid,
\* text, and image for every other prefix
TypeOfPrefix(name) ==
    LET p == toLowerCase(Head(name))
    IN IF p \in {"audio", "video", "hybrid", "text"} THEN p ELSE "image"

\* required counts: image 3, hybrid 3, audio/video/text 2
RequiredCount(caseType) == IF caseType \in {"image", "hybrid"} THEN 3 ELSE 2

(* C33: for every case name the flag of validateCases is true iff the       *)
(* number of files under the case's folder meets the required count of the  *)
(* type its prefix stands for (audio, video, hybrid, text by the part       *)
(* before the first "-", compared case-insensitively; image for every other *)
(* prefix).                                                                  *)
C33_AsClaimed ==
    \A i \in DOMAIN vc.status :
        vc.status[i] = "ok" =>
            (vc.returned[i] <=>
                FilesIn(vc.cases[i]) >= RequiredCount(TypeOfPrefix(vc.cases[i])))

\* what does hold: the same, for the prefixes that are not a property every
\* object inherits
C33_ExceptInheritedKeys ==
    \A i \in DOMAIN vc.status :
        (vc.status[i] = "ok"
            /\ toLowerCase(Head(vc.cases[i])) \notin {"constructor", "__proto__"}) =>
            (vc.returned[i] <=>
                FilesIn(vc.cases[i]) >= RequiredCount(TypeOfPrefix(vc.cases[i])))

----------------------------------------------------------------------------
(* fetchCases: candidates, validation, filter, shuffle *)

\* what the backend holds directly under the path given to fetchCases: the
\* case folders and one plain file, in listing order
BackendEntries ==
    << [name |-> <<"image", "1">>, kind |-> "folder"],
       [name |-> <<"notes.txt">>, kind |-> "file"],
       [name |-> <<"audio", "1">>, kind |-> "folder"],
       [name |-> <<"image", "2">>, kind |-> "folder"],
       [name |-> <<"hybrid", "1">>, kind |-> "folder"],
       [name |-> <<"Video", "1">>, kind |-> "folder"],
       [name |-> <<"text", "1">>, kind |-> "folder"],
       [name |-> <<"misc", "1">>, kind |-> "folder"] >>

\* the names of the entries of the given kind, in listing order
EntryNames(kind) ==
    LET keep == [i \in 1..Len(BackendEntries) |-> BackendEntries[i].kind = kind]
        names == [i \in 1..Len(BackendEntries) |-> BackendEntries[i].name]
    IN SelectIdx(names, keep, 1)

\* Dropbox listFolders: entries tagged "folder"
listFolders == EntryNames("folder")
\* OneDrive: items with a folder facet
listFoldersFromOneDrive == EntryNames("folder")
\* Azure: the "prefix" items of the hierarchy listing
listFoldersFromAzure == EntryNames("folder")
\* Google Drive: fetchCases lists with listFilesFromGoogleDrive, whose query
\* is mimeType != 'application/vnd.google-apps.folder'
listFilesFromGoogleDrive == EntryNames("file")

\* the listing each adapter's fetchCases awaits when usePreconfig is false
CandidateListing(adapter) ==
    CASE adapter = "dropbox" -> listFolders
      [] adapter = "onedrive" -> listFoldersFromOneDrive
      [] adapter = "googledrive" -> listFilesFromGoogleDrive
      [] adapter = "azure" -> listFoldersFromAzure

\* listing the files of /gallery/cases/<name> throws when the folder does not
\* exist (Dropbox path/not_found, Graph 404, Drive "Folder not found"); an
\* Azure prefix listing of a missing folder is just empty
ListingThrows(adapter, name) == adapter # "azure" /\ name \notin CaseNames

\* what validateCases resolves with when no listing fails
validateCasesResult(adapter, names) ==
    [i \in 1..Len(names) |->
        CheckAssetsOf(adapter, FilesIn(names[i]), CaseTypeOfName(names[i]))]

\* mutant: the filter keeps the names whose flag is false
FilterValid_Inverted(names, flags) ==
    SelectIdx(names, [i \in 1..Len(names) |-> ~flags[i]], 1)

\* names.filter((_, i) => flags[i])
FilterValid(names, flags) == SelectIdx(names, flags, 1)

\* mutant: a shuffle that loses its last element
shuffle_DropsLast(s) ==
    {[i \in 1..(Len(s) - 1) |-> s[p[i]]] : p \in Permutations(1..Len(s))}

\* lodash shuffle: some rearrangement of the elements of s
shuffle(s) == {[i \in 1..Len(s) |-> s[p[i]]] : p \in Permutations(1..Len(s))}

\* Azure: (buckets[key] || buckets.image).push(c), key = c.split("-")[0].toLowerCase();
\* own keys give their bucket, an inherited key (constructor) gives an object
\* without push, every other key is undefined and falls back to image
BucketOf(name) ==
    LET key == toLowerCase(Head(name))
    IN CASE key \in KnownTypes -> key
         [] key \in {"constructor", "__proto__"} -> "TypeError"
         [] OTHER -> "image"

Bucket(valid, b) ==
    SelectIdx(valid, [i \in 1..Len(valid) |-> BucketOf(valid[i]) = b], 1)

\* mutant: the buckets are concatenated in the order they are declared
CategorizedShuffle_DeclarationOrder(valid) ==
    {i \o a \o v \o t \o h :
        i \in shuffle(Bucket(valid, "image")), a \in shuffle(Bucket(valid, "audio")),
        v \in shuffle(Bucket(valid, "video")), t \in shuffle(Bucket(valid, "text")),
        h \in shuffle(Bucket(valid, "hybrid"))}

\* Azure, shuffleMode "categorized": image, hybrid, video, audio, text, each
\* bucket shuffled on its own
CategorizedShuffle(valid) ==
    {i \o h \o v \o a \o t :
        i \in shuffle(Bucket(valid, "image")), h \in shuffle(Bucket(valid, "hybrid")),
        v \in shuffle(Bucket(valid, "video")), a \in shuffle(Bucket(valid, "audio")),
        t \in shuffle(Bucket(valid, "text"))}

\* Dropbox fetchCases: if (shuffleMode === "full") validCases = shuffle(validCases)
fetchCases(valid, shuffleArg) ==
    IF shuffleArg = "full" THEN shuffle(valid) ELSE {valid}

\* OneDrive: if (shuffle) valid = _shuffle(valid)
fetchCasesFromOneDrive(valid, shuffleArg) ==
    IF Truthy(shuffleArg) THEN shuffle(valid) ELSE {valid}

\* Google Drive: if (shuffle) valid = _shuffle(valid)
fetchCasesFromGoogleDrive(valid, shuffleArg) ==
    IF Truthy(shuffleArg) THEN shuffle(valid) ELSE {valid}

\* Azure: categorized, else full, else unchanged
fetchCasesFromAzure(valid, shuffleArg) ==
    IF shuffleArg = "categorized" THEN CategorizedShuffle(valid)
    ELSE IF shuffleArg = "full" THEN shuffle(valid)
    ELSE {valid}

\* the values the adapter's fetchCases can return for the filtered names
FetchCasesReturns(adapter, valid, shuffleArg) ==
    CASE adapter = "dropbox" -> fetchCases(valid, shuffleArg)
      [] adapter = "onedrive" -> fetchCasesFromOneDrive(valid, shuffleArg)
      [] adapter = "googledrive" -> fetchCasesFromGoogleDrive(valid, shuffleArg)
      [] adapter = "azure" -> fetchCasesFromAzure(valid, shuffleArg)

----------------------------------------------------------------------------
(* SpecFetch: one call fetchCases(usePreconfig, path, cases, shuffle)        *)

\* the fourth argument: a mode string, or a JavaScript boolean
ShuffleArgs == {"none", "full", "categorized", "false", "true"}

\* the preset lists: any list when it is used; when usePreconfig is false the
\* code never reads it, and the model passes no name or one
PresetLists(usePreconfig) ==
    IF usePreconfig THEN SeqsUpTo(CaseNames, MaxCases)
    ELSE {<<>>, << <<"text", "1">> >>}

InitFetch ==
    /\ \E a \in Adapters, u \in BOOLEAN, m \in ShuffleArgs :
         \E cs \in PresetLists(u) :
            fc = [adapter |-> a, usePreconfig |-> u, cases |-> cs, shuffle |-> m,
                  pc |-> "start", listed |-> FALSE, names |-> <<>>,
                  flags |-> <<>>, valid |-> <<>>, result |-> <<>>]
    /\ chk = IdleCall
    /\ vc = IdleCall
    /\ HookIdle
    /\ ExtIdle

\* const names = usePreconfig ? cases : await listFolders(path);
\* with a preset list validateCases(names) is called at once
FetchStart ==
    /\ fc.pc = "start"
    /\ fc' = IF fc.usePreconfig
             THEN [fc EXCEPT !.pc = "validating", !.names = fc.cases]
             ELSE [fc EXCEPT !.pc = "listing", !.listed = TRUE]
    /\ UNCHANGED <<chk, vc, hookVars, extVars>>

\* the candidate listing resolves; validateCases(names) is called
FetchListingResolves ==
    /\ fc.pc = "listing"
    /\ fc' = [fc EXCEPT !.pc = "validating", !.names = CandidateListing(fc.adapter)]
    /\ UNCHANGED <<chk, vc, hookVars, extVars>>

\* the candidate listing rejects; fetchCases has no catch
FetchListingFails ==
    /\ fc.pc = "listing"
    /\ fc' = [fc EXCEPT !.pc = "rejected"]
    /\ UNCHANGED <<chk, vc, hookVars, extVars>>

\* await validateCases(names) resolves: filter by flag, shuffle, return
FetchValidateResolves ==
    /\ fc.pc = "validating"
    /\ \A i \in 1..Len(fc.names) : ~ListingThrows(fc.adapter, fc.names[i])
    /\ LET flags == validateCasesResult(fc.adapter, fc.names)
           valid == FilterValid(fc.names, flags)
       IN \E r \in FetchCasesReturns(fc.adapter, valid, fc.shuffle) :
            fc' = [fc EXCEPT !.pc = "done", !.flags = flags, !.valid = valid,
                             !.result = r]
    /\ UNCHANGED <<chk, vc, hookVars, extVars>>

\* await validateCases(names) rejects because a listing failed
FetchValidateRejects ==
    /\ fc.pc = "validating"
    /\ Len(fc.names) > 0
    /\ fc' = [fc EXCEPT !.pc = "rejected"]
    /\ UNCHANGED <<chk, vc, hookVars, extVars>>

NextFetch ==
    \/ FetchStart
    \/ FetchListingResolves
    \/ FetchListingFails
    \/ FetchValidateResolves
    \/ FetchValidateRejects

SpecFetch == InitFetch /\ [][NextFetch]_vars

----------------------------------------------------------------------------
(* What the claims about fetchCases speak of *)

\* the indexes of the candidates whose validation flag is true
ValidIdx == {i \in 1..Len(fc.names) : fc.flags[i]}

\* the k-th smallest index of a valid candidate
KthValid(k) == CHOOSE i \in ValidIdx : Cardinality({j \in ValidIdx : j < i}) = k - 1

\* r is the sub-sequence of the candidates whose flag is true, in input order
IsFilteredInOrder(r) ==
    /\ Len(r) = Cardinality(ValidIdx)
    /\ \A k \in 1..Len(r) : r[k] = fc.names[KthValid(k)]

\* r holds every name as often as it occurs among the valid candidates
SameValidMultiset(r) ==
    \A x \in Range(fc.names) \cup Range(r) :
        Count(r, x) = Cardinality({i \in ValidIdx : fc.names[i] = x})

\* position of a name's bucket in the order image, hybrid, video, audio, text;
\* a prefix that is none of the five counts as image
BucketRank(name) ==
    LET p == toLowerCase(Head(name))
    IN CASE p = "hybrid" -> 2
         [] p = "video" -> 3
         [] p = "audio" -> 4
         [] p = "text" -> 5
         [] OTHER -> 1

InBucketOrder(r) ==
    \A i, j \in 1..Len(r) : i < j => BucketRank(r[i]) <= BucketRank(r[j])

\* the adapter was asked not to shuffle, in the form its fourth parameter has:
\* the mode "none" (Dropbox, Azure), the boolean false (OneDrive, Google Drive)
AskedNotToShuffle ==
    \/ fc.adapter \in {"dropbox", "azure"} /\ fc.shuffle = "none"
    \/ fc.adapter \in {"onedrive", "googledrive"} /\ fc.shuffle = "false"

(* C7: fetchCases of the Dropbox and Azure adapters called with shuffleMode  *)
(* "none", and fetchCases of the OneDrive and Google Drive adapters called   *)
(* with shuffle = false, return exactly the sub-sequence of the candidate    *)
(* names whose validation flag is true, in their original relative order.    *)
C7_NoShuffleKeepsOrder ==
    (fc.pc = "done" /\ AskedNotToShuffle) => IsFilteredInOrder(fc.result)

\* OneDrive, shuffle = false: of three candidates the invalid middle one went
C7_Witness ==
    /\ fc.pc = "done"
    /\ fc.adapter = "onedrive"
    /\ fc.shuffle = "false"
    /\ fc.names = << <<"audio", "1">>, <<"image", "2">>, <<"image", "1">> >>
    /\ fc.flags = <<TRUE, FALSE, TRUE>>
    /\ fc.result = << <<"audio", "1">>, <<"image", "1">> >>

\* the claim as stated: for every adapter, the argument "none" keeps the order
C7_AsClaimed ==
    (fc.pc = "done" /\ fc.shuffle = "none") => IsFilteredInOrder(fc.result)

(* C8: for every adapter and every candidate list, fetchCases called with    *)
(* shuffleMode "full" returns a permutation of the filtered-valid sequence:  *)
(* every name as often as it occurs among the valid candidates, no invalid   *)
(* case added, no valid case dropped.                                        *)
C8_FullShuffleIsPermutation ==
    (fc.pc = "done" /\ fc.shuffle = "full") =>
        /\ SameValidMultiset(fc.result)
        /\ Len(fc.result) = Cardinality(ValidIdx)

\* a full shuffle that dropped the invalid candidate and swapped the two valid ones
C8_Witness ==
    /\ fc.pc = "done"
    /\ fc.shuffle = "full"
    /\ fc.names = << <<"image", "1">>, <<"image", "2">>, <<"audio", "1">> >>
    /\ fc.result = << <<"audio", "1">>, <<"image", "1">> >>

(* C9: fetchCases of the Azure adapter called with shuffleMode "categorized" *)
(* returns a sequence in which all image-bucket names (including names with  *)
(* an unmatched prefix) come first, then all hybrid, then video, then audio, *)
(* then text names, and whose elements are exactly the valid cases.          *)
C9_AzureCategorizedOrder ==
    (fc.pc = "done" /\ fc.adapter = "azure" /\ fc.shuffle = "categorized") =>
        /\ InBucketOrder(fc.result)
        /\ SameValidMultiset(fc.result)
        /\ Len(fc.result) = Cardinality(ValidIdx)

\* the folder listing gave all five buckets; the image bucket came out shuffled
C9_Witness ==
    /\ fc.pc = "done"
    /\ fc.adapter = "azure"
    /\ fc.shuffle = "categorized"
    /\ ~fc.usePreconfig
    /\ fc.result = << <<"misc", "1">>, <<"image", "1">>, <<"hybrid", "1">>,
                      <<"Video", "1">>, <<"audio", "1">>, <<"text", "1">> >>

\* the claim as stated: every adapter orders by bucket under "categorized"
C9_AsClaimed ==
    (fc.pc = "done" /\ fc.shuffle = "categorized") =>
        /\ InBucketOrder(fc.result)
        /\ SameValidMultiset(fc.result)

(* C10: for every adapter the candidates of fetchCases are the preset names  *)
(* when usePreconfigured is true (and no listing is issued), and otherwise   *)
(* the names of the sub-folders under path.                                  *)
C10_AsClaimed ==
    fc.pc \in {"validating", "done"} =>
        IF fc.usePreconfig
        THEN fc.names = fc.cases /\ ~fc.listed
        ELSE fc.names = EntryNames("folder") /\ fc.listed

----------------------------------------------------------------------------
(* usePerformanceMetrics: routes, manifest, URL builder *)

\* the routes the host shows: two case views with a case directory, one whose
\* number is past the end of CASE_DIRS, and the terminal route
Routes == {"/survey/case1", "/survey/case2", "/survey/case9", "/survey/end"}

\* ../routes: the case-view routes of the survey
surveyRoutes == {"/survey/case1", "/survey/case2", "/survey/case9"}

\* String.prototype.endsWith on the routes of the model
endsWith(route, suffix) == route = suffix

\* surveyRoutes.find((r) => currentRoute.endsWith(r)), "undefined" if none
MatchedRoute(route) ==
    IF \E r \in surveyRoutes : endsWith(route, r)
    THEN CHOOSE r \in surveyRoutes : endsWith(route, r)
    ELSE "undefined"

\* parseInt(routeKey.replace(/.*case/, ""), 10) - 1
CaseIdx(routeKey) ==
    CASE routeKey = "/survey/case1" -> 0
      [] routeKey = "/survey/case2" -> 1
      [] routeKey = "/survey/case9" -> 8

CASE_DIRS ==
    <<"video-test1", "video-test2", "audio-test1", "audio-test2", "text-sample",
      "image-test">>

\* CASE_DIRS[idx], "undefined" past the end of the array
CaseDirAt(idx) == IF idx + 1 \in DOMAIN CASE_DIRS THEN CASE_DIRS[idx + 1] ELSE "undefined"

\* the manifest; dir is the part of the file name before its last "-<letter>.<ext>"
ALL_FILES ==
    << [name |-> "video-test1-a.mp4", dir |-> "video-test1"],
       [name |-> "video-test1-b.mp4", dir |-> "video-test1"],
       [name |-> "video-test2-a.mp4", dir |-> "video-test2"],
       [name |-> "audio-test1-a.mp3", dir |-> "audio-test1"],
       [name |-> "audio-test1-b.mp3", dir |-> "audio-test1"],
       [name |-> "audio-test2-a.mp3", dir |-> "audio-test2"],
       [name |-> "image-test-a.jpg", dir |-> "image-test"],
       [name |-> "image-test-b.jpg", dir |-> "image-test"],
       [name |-> "text-sample-a.txt", dir |-> "text-sample"] >>

\* Object.keys(SIZE_MAP).filter(f => f.startsWith(caseDir + "-")).map(url):
\* the URL of a file is written as its file name (origin and folder left out)
buildUrls(caseDir) ==
    LET keep == [i \in 1..Len(ALL_FILES) |-> ALL_FILES[i].dir = caseDir]
        names == [i \in 1..Len(ALL_FILES) |-> ALL_FILES[i].name]
    IN SelectIdx(names, keep, 1)

AllUrls == {ALL_FILES[i].name : i \in 1..Len(ALL_FILES)}

\* const ITER = 7: cycles 0..6 of the timing loop; the body-consuming fetch
\* that follows them is counted as cycle ITER
ITER == 7

\* what lookupGeo can resolve with
GeoResults ==
    { [country |-> "Norway", continent |-> "Europe", ref |-> "cache"],
      [country |-> "Unknown", continent |-> "Unknown", ref |-> "cache"] }

\* the most capture() calls in flight at once
MaxPasses == 2
\* endVisits counts up to this
MaxEndVisits == 2

----------------------------------------------------------------------------
(* SpecHook: one mounted usePerformanceMetrics *)

InitHook ==
    /\ HookIdle
    /\ chk = IdleCall
    /\ vc = IdleCall
    /\ fc = IdleCall
    /\ ExtIdle

\* the first index >= from of a URL not yet in the seen set, 0 if there is none
RECURSIVE NextUnseen(_, _, _)
NextUnseen(urls, seen, from) ==
    IF from > Len(urls) THEN 0
    ELSE IF urls[from] \in seen THEN NextUnseen(urls, seen, from + 1)
    ELSE from

\* the keys of the record literal of capture, in the order it lists them
\* (of the fields the model keeps)
RecordKeyOrder == <<"route", "country", "continent", "fileURL">>

\* Object.keys(m): the own keys of m in insertion order
ObjectKeys(m) == SelectSeq(RecordKeyOrder, LAMBDA k : k \in DOMAIN m)

\* mutant: the rows are written last record first
CsvDocument_NewestFirst(metrics) ==
    LET headerKeys == ObjectKeys(metrics[1])
        n == Len(metrics)
    IN <<headerKeys>> \o
       [i \in 1..n |-> [j \in 1..Len(headerKeys) |-> metrics[n + 1 - i][headerKeys[j]]]]

\* header + rows of the export effect, as the sequence of its lines, a line
\* being the sequence of the cells that join(",") puts together
CsvDocument(metrics) ==
    LET headerKeys == ObjectKeys(metrics[1])
    IN <<headerKeys>> \o
       [i \in 1..Len(metrics) |->
           [j \in 1..Len(headerKeys) |-> metrics[i][headerKeys[j]]]]

\* mutant: the export does not set hasDownloaded
ExportEffect_NoFlag(route, metrics, downloaded, docs) ==
    IF endsWith(route, "/survey/end") /\ Len(metrics) > 0 /\ ~downloaded
    THEN [hasDownloaded |-> downloaded, exports |-> Append(docs, CsvDocument(metrics))]
    ELSE [hasDownloaded |-> downloaded, exports |-> docs]

\* mutant: the export does not look at the route
ExportEffect_AnyRoute(route, metrics, downloaded, docs) ==
    IF Len(metrics) > 0 /\ ~downloaded
    THEN [hasDownloaded |-> TRUE, exports |-> Append(docs, CsvDocument(metrics))]
    ELSE [hasDownloaded |-> downloaded, exports |-> docs]

\* the export effect, run after a render in which currentRoute or allMetrics
\* changed: gives the new hasDownloaded and the documents materialized
ExportEffect(route, metrics, downloaded, docs) ==
    IF endsWith(route, "/survey/end") /\ Len(metrics) > 0 /\ ~downloaded
    THEN [hasDownloaded |-> TRUE, exports |-> Append(docs, CsvDocument(metrics))]
    ELSE [hasDownloaded |-> downloaded, exports |-> docs]

\* the capture effect, run after a render in which currentRoute or location
\* changed: capture(matched) runs up to its await of buildUrls
CaptureEffect(route, loc, running) ==
    LET matched == MatchedRoute(route)
        caseDir == IF matched = "undefined" THEN "undefined"
                   ELSE CaseDirAt(CaseIdx(matched))
    IN IF matched = "undefined" \/ caseDir = "undefined" THEN running
       ELSE Append(running, [route |-> matched, caseDir |-> caseDir, loc |-> loc,
                             pc |-> "buildUrls", urls |-> <<>>, k |-> 0, i |-> 0,
                             newMetrics |-> <<>>])

\* mutant: the dedup guard tests the seen set but never adds to it
MarkSeen_Forgets(seen, url) == seen

\* recorded.current.add(url)
MarkSeen(seen, url) == seen \cup {url}

Without(seq, p) == [j \in 1..(Len(seq) - 1) |-> IF j < p THEN seq[j] ELSE seq[j + 1]]

Min(a, b) == IF a < b THEN a ELSE b

\* mutant: the update writes the pass's records over the log
setAllMetrics_Replaces(prev, newMetrics) == newMetrics

\* mutant: the update keeps the log as it is
setAllMetrics_Drops(prev, newMetrics) == prev

\* setAllMetrics((prev) => [...prev, ...newMetrics])
setAllMetrics(prev, newMetrics) == prev \o newMetrics

\* pass p goes on with its for-loop from index `from` of its urls: the next
\* URL not yet seen is marked and its cycle 0 is issued; when there is none
\* left, setAllMetrics appends newMetrics and the export effect runs on the
\* new log. On a component that has been unmounted React drops the state
\* update, and no effect runs.
ContinueLoop(p, pass, from) ==
    LET k == NextUnseen(pass.urls, recorded, from)
    IN IF k > 0
       THEN /\ recorded' = MarkSeen(recorded, pass.urls[k])
            /\ timed' = [timed EXCEPT ![pass.urls[k]] = Min(@ + 1, 2)]
            /\ passes' = [passes EXCEPT ![p] = [pass EXCEPT !.pc = "fetch", !.k = k, !.i = 0]]
            /\ UNCHANGED <<allMetrics, hasDownloaded, exports>>
       ELSE LET log == IF mounted THEN setAllMetrics(allMetrics, pass.newMetrics)
                       ELSE allMetrics
                e == IF mounted
                     THEN ExportEffect(currentRoute, log, hasDownloaded, exports)
                     ELSE [hasDownloaded |-> hasDownloaded, exports |-> exports]
            IN /\ allMetrics' = log
               /\ hasDownloaded' = e.hasDownloaded
               /\ exports' = e.exports
               /\ passes' = Without(passes, p)
               /\ UNCHANGED <<recorded, timed>>

\* first render and commit: the geolocation effect calls lookupGeo(), the
\* capture effect and the export effect run for the initial route
Mount(r) ==
    /\ ~mounted
    /\ currentRoute = "none"
    /\ mounted' = TRUE
    /\ currentRoute' = r
    /\ geoPending' = TRUE
    /\ timed' = [u \in AllUrls |-> 0]
    /\ passes' = CaptureEffect(r, location, passes)
    /\ LET e == ExportEffect(r, allMetrics, hasDownloaded, exports)
       IN hasDownloaded' = e.hasDownloaded /\ exports' = e.exports
    /\ endVisits' = 0
    /\ UNCHANGED <<location, recorded, allMetrics, chk, vc, fc, extVars>>

\* the host changes currentRoute: the capture effect and the export effect
\* depend on it and run again
Navigate(r) ==
    /\ mounted
    /\ r # currentRoute
    /\ Len(CaptureEffect(r, location, passes)) <= MaxPasses
    /\ currentRoute' = r
    /\ passes' = CaptureEffect(r, location, passes)
    /\ LET e == ExportEffect(r, allMetrics, hasDownloaded, exports)
       IN hasDownloaded' = e.hasDownloaded /\ exports' = e.exports
    /\ endVisits' = IF endsWith(r, "/survey/end") /\ hasDownloaded
                    THEN Min(endVisits + 1, MaxEndVisits)
                    ELSE endVisits
    /\ UNCHANGED <<mounted, location, geoPending, recorded, allMetrics, timed,
                   chk, vc, fc, extVars>>

\* lookupGeo() resolves: setLocation(geo) stores a new object, and the capture
\* effect, which has location among its dependencies, runs again
GeoResolves(geo) ==
    /\ mounted
    /\ geoPending
    /\ Len(CaptureEffect(currentRoute, geo, passes)) <= MaxPasses
    /\ geoPending' = FALSE
    /\ location' = geo
    /\ passes' = CaptureEffect(currentRoute, geo, passes)
    /\ UNCHANGED <<mounted, currentRoute, recorded, allMetrics, hasDownloaded,
                   exports, timed, endVisits, chk, vc, fc, extVars>>

\* the host removes the component: no effect of the hook returns a cleanup,
\* so the passes in flight and the pending lookupGeo() go on; what they set
\* on the component's state afterwards is dropped
Unmount ==
    /\ mounted
    /\ mounted' = FALSE
    /\ UNCHANGED <<currentRoute, location, geoPending, recorded, allMetrics,
                   hasDownloaded, passes, exports, timed, endVisits, chk, vc, fc,
                   extVars>>

\* the component has been mounted and removed
TornDown == ~mounted /\ currentRoute # "none"

\* await buildUrls(caseDir) resolves in pass p: the for-loop starts
BuildUrlsResolves(p) ==
    /\ p \in DOMAIN passes
    /\ passes[p].pc = "buildUrls"
    /\ ContinueLoop(p, [passes[p] EXCEPT !.urls = buildUrls(passes[p].caseDir)], 1)
    /\ UNCHANGED <<mounted, currentRoute, location, geoPending, endVisits,
                   chk, vc, fc, extVars>>

\* await buildUrls(caseDir) rejects in pass p: capture() ends with it
BuildUrlsRejects(p) ==
    /\ p \in DOMAIN passes
    /\ passes[p].pc = "buildUrls"
    /\ passes' = Without(passes, p)
    /\ UNCHANGED <<mounted, currentRoute, location, geoPending, recorded, allMetrics,
                   hasDownloaded, exports, timed, endVisits, chk, vc, fc, extVars>>

\* the fetch pass p awaits settles (resolved, or rejected and caught):
\* cycles 0..ITER-2 are followed by the next cycle, cycle ITER-1 by the
\* body-consuming fetch, and that one by the record and the next URL
FetchSettles(p) ==
    /\ p \in DOMAIN passes
    /\ passes[p].pc = "fetch"
    /\ LET pass == passes[p]
           url == pass.urls[pass.k]
       IN IF pass.i < ITER
          THEN /\ passes' = [passes EXCEPT ![p].i = pass.i + 1]
               /\ UNCHANGED <<recorded, timed, allMetrics, hasDownloaded, exports>>
          ELSE ContinueLoop(p,
                   [pass EXCEPT !.newMetrics =
                       Append(@, [route |-> pass.route, fileURL |-> url,
                                  country |-> pass.loc.country,
                                  continent |-> pass.loc.continent])],
                   pass.k + 1)
    /\ UNCHANGED <<mounted, currentRoute, location, geoPending, endVisits,
                   chk, vc, fc, extVars>>

NextHook ==
    \/ \E r \in Routes : Mount(r)
    \/ \E r \in Routes : Navigate(r)
    \/ \E geo \in GeoResults : GeoResolves(geo)
    \/ Unmount
    \/ \E p \in 1..MaxPasses : BuildUrlsResolves(p)
    \/ \E p \in 1..MaxPasses : BuildUrlsRejects(p)
    \/ \E p \in 1..MaxPasses : FetchSettles(p)

SpecHook == InitHook /\ [][NextHook]_vars

----------------------------------------------------------------------------
(* What the claims about the hook speak of *)

\* the records built so far in the session: the log, then what the passes in
\* flight hold in newMetrics
RECURSIVE PendingRecords(_)
PendingRecords(p) ==
    IF p > Len(passes) THEN <<>> ELSE passes[p].newMetrics \o PendingRecords(p + 1)

BuiltRecords == allMetrics \o PendingRecords(1)

\* the passes that have a measurement fetch in flight
Measuring == {p \in DOMAIN passes : passes[p].pc = "fetch"}

(* C1: within one session, whatever the route changes and re-runs of the     *)
(* capture effect, no two MetricRecords (in the log or about to be appended  *)
(* to it) have the same fileURL, and no URL enters the timing loop more than *)
(* once.                                                                     *)
C1_NoUrlMeasuredTwice ==
    mounted =>
        /\ \A i, j \in 1..Len(BuiltRecords) :
              i # j => BuiltRecords[i].fileURL # BuiltRecords[j].fileURL
        /\ \A u \in AllUrls : timed[u] <= 1

\* case 1 was entered again while its first pass was timing the first file:
\* the second pass skipped that URL and is timing the second file
C1_Witness ==
    /\ Len(passes) = 2
    /\ passes[1].route = "/survey/case1" /\ passes[2].route = "/survey/case1"
    /\ passes[1].pc = "fetch" /\ passes[1].k = 1
    /\ passes[2].pc = "fetch" /\ passes[2].k = 2
    /\ timed["video-test1-a.mp4"] = 1

(* C2: in one session the CSV document is materialized at most once, and     *)
(* hasDownloaded is set exactly when it has been: no later visit to          *)
(* "/survey/end" and no later change of the log exports again.               *)
C2_ExportAtMostOnce ==
    /\ Len(exports) <= 1
    /\ hasDownloaded <=> Len(exports) = 1

\* after the export the terminal route was entered twice more and the log
\* has grown, and there is still one document
C2_Witness ==
    /\ hasDownloaded
    /\ Len(exports) = 1
    /\ currentRoute = "/survey/end"
    /\ endVisits >= 2
    /\ Len(allMetrics) > Len(exports[1]) - 1

(* C3: per-asset measurement is strictly sequential within a case: at most   *)
(* one measurement fetch of the collector for a given case is in flight, so  *)
(* two passes never time assets of the same case at overlapping times.       *)
C3_AsClaimed ==
    \A p, q \in Measuring : passes[p].caseDir = passes[q].caseDir => p = q

(* C20: when the log is non-empty at export, the exported document is one   *)
(* header line holding the keys of the first record in their key order,     *)
(* followed by exactly one row per record of the log, in the order the      *)
(* records were appended, each row listing that record's values in the      *)
(* header's column order.                                                    *)
C20_ExportedDocument ==
    [][exports' # exports =>
          /\ Len(allMetrics') > 0
          /\ Len(exports') = Len(exports) + 1
          /\ LET doc == exports'[Len(exports')]
             IN /\ doc[1] = RecordKeyOrder
                /\ Len(doc) = 1 + Len(allMetrics')
                /\ \A i \in 1..Len(allMetrics') :
                      /\ Len(doc[i + 1]) = Len(doc[1])
                      /\ \A j \in 1..Len(doc[1]) :
                            doc[i + 1][j] = allMetrics'[i][doc[1][j]]]_vars

\* a document of three rows: the two files of case 1, measured before the
\* geolocation was known, then the file of case 2, measured after it
C20_Witness ==
    /\ Len(exports) = 1
    /\ Len(exports[1]) = 4
    /\ exports[1][1] = <<"route", "country", "continent", "fileURL">>
    /\ exports[1][2] = <<"/survey/case1", "Unknown", "Unknown", "video-test1-a.mp4">>
    /\ exports[1][3] = <<"/survey/case1", "Unknown", "Unknown", "video-test1-b.mp4">>
    /\ exports[1][4] = <<"/survey/case2", "Norway", "Europe", "video-test2-a.mp4">>

\* a step in which a pass that stays in flight issues a fetch
FetchIssued ==
    /\ Len(passes') = Len(passes)
    /\ \E p \in DOMAIN passes : passes'[p] # passes[p] /\ passes'[p].pc = "fetch"

(* C21: if the view hosting the collector is torn down while a capture pass *)
(* is in flight, then after the teardown that pass issues no further fetch  *)
(* and mutates none of the session state (seen-URL set, metrics log, export *)
(* flag).                                                                    *)
C21_AsClaimed ==
    [][TornDown =>
          /\ ~FetchIssued
          /\ recorded' = recorded
          /\ allMetrics' = allMetrics
          /\ hasDownloaded' = hasDownloaded]_vars

(* C24: a measurement pass is started exactly once per navigation into a    *)
(* case-view route: a capture pass starts only in a step that changes the   *)
(* route (the first render included), whatever else changes in between.     *)
C24_AsClaimed ==
    [][Len(passes') > Len(passes) => currentRoute' # currentRoute]_vars

(* C25: a URL is in the seen set before the first fetch for it is issued    *)
(* (the pass that is fetching a URL has marked it, and so has every pass    *)
(* that holds or has logged a record for it), and the seen set only grows.  *)
C25_SeenBeforeFetch ==
    [][/\ recorded \subseteq recorded'
       /\ \A i \in 1..Len(allMetrics') : allMetrics'[i].fileURL \in recorded'
       /\ \A u \in AllUrls : timed'[u] >= 1 => u \in recorded'
       /\ \A p \in DOMAIN passes' :
             /\ passes'[p].pc = "fetch" => passes'[p].urls[passes'[p].k] \in recorded'
             /\ \A j \in 1..Len(passes'[p].newMetrics) :
                   passes'[p].newMetrics[j].fileURL \in recorded']_vars

\* the second file of case 1 is in the seen set while its cycle 0 is still
\* in flight and nothing has been logged
C25_Witness ==
    /\ mounted
    /\ Len(passes) = 1
    /\ passes[1].pc = "fetch" /\ passes[1].k = 2 /\ passes[1].i = 0
    /\ recorded = {"video-test1-a.mp4", "video-test1-b.mp4"}
    /\ allMetrics = <<>>

(* C26: the record of a URL is appended to the session log as soon as its   *)
(* measurement has completed: while a pass measures a later URL, the        *)
(* records of the URLs it has measured are in the log.                       *)
C26_AsClaimed ==
    \A p \in DOMAIN passes :
        passes[p].pc = "fetch" =>
            \A j \in 1..Len(passes[p].newMetrics) :
                \E i \in 1..Len(allMetrics) : allMetrics[i] = passes[p].newMetrics[j]

(* C27: the session log is append-only: in every step the previous log is a *)
(* prefix of the new one, also when two passes complete in either order.    *)
C27_LogAppendOnly ==
    [][/\ Len(allMetrics) <= Len(allMetrics')
       /\ \A i \in 1..Len(allMetrics) : allMetrics'[i] = allMetrics[i]]_vars

\* the pass of case 2 has appended its record while the pass of case 1,
\* which holds a record of its own, is still measuring
C27_Witness ==
    /\ mounted
    /\ Len(allMetrics) = 1 /\ allMetrics[1].route = "/survey/case2"
    /\ Len(passes) = 1
    /\ passes[1].route = "/survey/case1" /\ Len(passes[1].newMetrics) = 1

(* C28: the export fires only in a step that ends with the terminal route   *)
(* current and a non-empty log, from a state with the flag unset; the flag  *)
(* changes only with an export; on a non-terminal route nothing is emitted  *)
(* and the flag does not change (so the terminal route with an empty log    *)
(* emits nothing and leaves the flag unset).                                 *)
C28_ExportGuard ==
    [][/\ exports' # exports =>
             /\ endsWith(currentRoute', "/survey/end")
             /\ Len(allMetrics') > 0
             /\ ~hasDownloaded /\ hasDownloaded'
       /\ hasDownloaded' # hasDownloaded => exports' # exports
       /\ (~endsWith(currentRoute', "/survey/end") \/ Len(allMetrics') = 0) =>
             exports' = exports /\ hasDownloaded' = hasDownloaded]_vars

\* the terminal route is current after a case has been visited, the log is
\* still empty, nothing has been emitted and the flag is unset
C28_Witness ==
    /\ mounted
    /\ currentRoute = "/survey/end"
    /\ recorded # {}
    /\ allMetrics = <<>>
    /\ exports = <<>>
    /\ ~hasDownloaded

(* C29: the exported report is complete: every record ever appended to the  *)
(* session log is a row of the one exported report, no record is appended   *)
(* after the export has fired.                                               *)
C29_AsClaimed ==
    Len(exports) >= 1 => Len(exports[1]) = 1 + Len(allMetrics)

\* lookupGeo() of this session has resolved and setLocation has stored it
LookupResolved == currentRoute # "none" /\ ~geoPending

\* the records pushed to a newMetrics array in the step
RecordsBuiltInStep == Range(BuiltRecords') \ Range(BuiltRecords)

(* C31: every MetricRecord built after the geolocation lookup has resolved  *)
(* carries the resolved country and continent (the placeholder pair is in a *)
(* record only if the record was built before the lookup resolved or the    *)
(* lookup itself gave Unknown).                                              *)
C31_AsClaimed ==
    [][LookupResolved =>
          \A rec \in RecordsBuiltInStep :
              /\ rec.country = location.country
              /\ rec.continent = location.continent]_vars

\* what does hold: a record carries the location of the render whose capture
\* effect started its pass
C31_LocationOfStartingRender ==
    \A p \in DOMAIN passes : \A j \in DOMAIN passes[p].newMetrics :
        /\ passes[p].newMetrics[j].country = passes[p].loc.country
        /\ passes[p].newMetrics[j].continent = passes[p].loc.continent

----------------------------------------------------------------------------
(* SpecHookLive: a session in which the view stays mounted, the URL builder *)
(* resolves and every fetch completes or fails                               *)

NextHookLive ==
    \/ \E r \in Routes : Mount(r)
    \/ \E r \in Routes : Navigate(r)
    \/ \E g \in GeoResults : GeoResolves(g)
    \/ \E p \in 1..MaxPasses : BuildUrlsResolves(p)
    \/ \E p \in 1..MaxPasses : FetchSettles(p)

\* what a pass awaits settles: the builder's promise and every fetch
PassesProgress ==
    \A p \in 1..MaxPasses :
        WF_vars(BuildUrlsResolves(p)) /\ WF_vars(FetchSettles(p))

SpecHookLive == InitHook /\ [][NextHookLive]_vars /\ PassesProgress

\* the number of records of the log for the URL u
RECURSIVE RecordsFor(_, _)
RecordsFor(log, u) ==
    IF log = <<>> THEN 0
    ELSE (IF Head(log).fileURL = u THEN 1 ELSE 0) + RecordsFor(Tail(log), u)

\* the oldest pass in flight ends (passes are kept in the order they started)
OldestPassEnds == passes # <<>> /\ passes' = Tail(passes)

\* every URL of the seen set has exactly one record in the log
SeenUrlsLogged == \A u \in recorded : RecordsFor(allMetrics, u) = 1

(* C30: if the URL builder resolves, every fetch eventually completes or    *)
(* fails and the view is not torn down, every URL that enters the seen set  *)
(* eventually has exactly one record in the session log (the seen set is    *)
(* finite and only grows and a logged record stays, so this is: from some   *)
(* point on every URL of the seen set has exactly one record), and every    *)
(* capture pass terminates (no pass stays the oldest one in flight for      *)
(* ever).                                                                    *)
C30_EveryUrlLogged ==
    /\ <>[]SeenUrlsLogged
    /\ \/ []<>(passes = <<>>)
       \/ []<><<OldestPassEnds>>_vars

\* both case routes have been measured: no pass is in flight and each of
\* their three URLs has its record
C30_Witness ==
    /\ mounted
    /\ passes = <<>>
    /\ recorded = {"video-test1-a.mp4", "video-test1-b.mp4", "video-test2-a.mp4"}
    /\ Len(allMetrics) = 3
    /\ \A u \in recorded : RecordsFor(allMetrics, u) = 1

----------------------------------------------------------------------------
(* SpecList: one listFolders / listFiles call of an adapter on a directory  *)
(* that the backend serves in pages                                          *)

\* the most pages the backend splits a directory into
MaxPages == 3

\* the pages the backend can answer with (a page may be empty and still be
\* followed by another)
PageChoices ==
    { <<>>,
      << [name |-> "image-1", kind |-> "folder"] >>,
      << [name |-> "a.jpg", kind |-> "file"], [name |-> "audio-1", kind |-> "folder"] >>,
      << [name |-> "b.jpg", kind |-> "file"] >> }

\* the listing functions: the Google Drive adapter has listFiles only
ListOps(adapter) == IF adapter = "googledrive" THEN {"files"} ELSE {"folders", "files"}

\* entries.filter(tag / folder / file / kind).map(name), with substring ""
NamesOfKind(entries, op) ==
    LET kind == IF op = "folders" THEN "folder" ELSE "file"
        keep == [i \in 1..Len(entries) |-> entries[i].kind = kind]
        names == [i \in 1..Len(entries) |-> entries[i].name]
    IN SelectIdx(names, keep, 1)

\* whether the adapter asks for the page after one that reports more:
\* listAllEntries loops on has_more with the cursor, the Azure adapter drains
\* the paged iterator with for await; the OneDrive and the Google Drive
\* adapter issue one request and read its value / files
FollowsContinuation(adapter) == adapter \in {"dropbox", "azure"}

RECURSIVE Flatten(_)
Flatten(pages) == IF pages = <<>> THEN <<>> ELSE Head(pages) \o Flatten(Tail(pages))

InitList ==
    /\ \E a \in Adapters, pg \in SeqsUpTo(PageChoices, MaxPages) :
         \E op \in ListOps(a) :
            /\ Len(pg) >= 1
            /\ ls = [adapter |-> a, op |-> op, pages |-> pg, pc |-> "request",
                     asked |-> 0, entries |-> <<>>, result |-> <<>>]
    /\ OldIdle
    /\ az = IdleCall
    /\ gi = IdleCall
    /\ sz = IdleCall
    /\ du = IdleCall
    /\ ms = IdleCall
    /\ lg = IdleCall
    /\ up = IdleCall

\* the request in flight (the first one, or a continuation) is answered with
\* the next page: its entries are taken, and the call either asks for the
\* page after it or returns the names it has
ListPageArrives ==
    /\ ls.pc = "request"
    /\ LET n == ls.asked + 1
           got == ls.entries \o ls.pages[n]
           more == n < Len(ls.pages)
       IN IF more /\ FollowsContinuation(ls.adapter)
          THEN ls' = [ls EXCEPT !.asked = n, !.entries = got]
          ELSE ls' = [ls EXCEPT !.asked = n, !.entries = got, !.pc = "done",
                                !.result = NamesOfKind(got, ls.op)]
    /\ UNCHANGED <<oldVars, ms, lg, up, du, az, gi, sz>>

\* the request in flight fails: the call throws
ListRequestFails ==
    /\ ls.pc = "request"
    /\ ls' = [ls EXCEPT !.pc = "threw"]
    /\ UNCHANGED <<oldVars, ms, lg, up, du, az, gi, sz>>

NextList ==
    \/ ListPageArrives
    \/ ListRequestFails

SpecList == InitList /\ [][NextList]_vars

(* C11: for every adapter, when the backend serves a directory in several   *)
(* pages, a listing that returns has asked for every page and returns the   *)
(* names of the entries of all pages, never those of a strict prefix of the *)
(* pages.                                                                    *)
C11_AsClaimed ==
    ls.pc = "done" =>
        /\ ls.asked = Len(ls.pages)
        /\ ls.result = NamesOfKind(Flatten(ls.pages), ls.op)

\* what holds instead: the adapters that follow the continuation return all
\* pages, the other two return the first page whatever follows it
ListingReturnsWhatItAskedFor ==
    ls.pc = "done" =>
        IF FollowsContinuation(ls.adapter)
        THEN ls.asked = Len(ls.pages) /\ ls.result = NamesOfKind(Flatten(ls.pages), ls.op)
        ELSE ls.asked = 1 /\ ls.result = NamesOfKind(ls.pages[1], ls.op)

----------------------------------------------------------------------------
(* SpecMeasure: the capture pass measures one URL (timing loop, body fetch, *)
(* record)                                                                   *)

\* what a fetch of the timing loop can resolve with: the elapsed time
\* t1 - t0 in ms and the encoded length of the response's header lines
Responses ==
    { [ok |-> TRUE, elapsed |-> 0, headerBytes |-> 120],
      [ok |-> TRUE, elapsed |-> 200, headerBytes |-> 120],
      [ok |-> TRUE, elapsed |-> 7, headerBytes |-> 256] }

\* a fetch that rejected
Rejected == [ok |-> FALSE, elapsed |-> 0, headerBytes |-> 0]

\* blob.size of the body-consuming fetch
BlobSizes == {0, 1000, 102400}

\* Number.prototype.toFixed(2) of the non-negative quotient num / den, as the
\* number of hundredths it prints (round to nearest, the larger on a tie)
toFixed2(num, den) ==
    100 * (num \div den) + (100 * (num % den) + den \div 2) \div den

\* mutant: cycle 0 is timed like the others
TimingStep_CountsCycle0(i, acc, r) ==
    [acc EXCEPT !.sumFetch = @ + r.elapsed, !.count = @ + 1,
                !.headerSize = IF i = 0 THEN r.headerBytes ELSE @]

\* the body of the timing loop after a fetch that resolved in cycle i
TimingStep(i, acc, r) ==
    IF i = 0
    THEN [acc EXCEPT !.headerSize = r.headerBytes]
    ELSE [acc EXCEPT !.sumFetch = @ + r.elapsed, !.count = @ + 1]

\* mutant: a rejected fetch still counts as a cycle of the mean
TimingCatch_CountsFailure(i, acc) ==
    IF i = 0 THEN acc ELSE [acc EXCEPT !.count = @ + 1]

\* catch { continue; }
TimingCatch(i, acc) == acc

\* avgFetch.toFixed(2), avgFetch = count > 0 ? sumFetch / count : 0
fetchTimeMs(acc) == IF acc.count > 0 THEN toFixed2(acc.sumFetch, acc.count) ELSE 0

\* (blobSize / 1024).toFixed(2)
payloadKB(blobSize) == toFixed2(blobSize, 1024)

\* mutant: the throughput is per millisecond
throughputKBps_PerMs(acc, blobSize) ==
    IF acc.count > 0 /\ acc.sumFetch > 0
    THEN toFixed2(blobSize * acc.count, 1024 * acc.sumFetch)
    ELSE 0

\* throughputKBps.toFixed(2), throughputKBps = avgFetch > 0 ?
\* (payloadKB * 1000) / avgFetch : 0, on the unrounded payloadKB and avgFetch
throughputKBps(acc, blobSize) ==
    IF acc.count > 0 /\ acc.sumFetch > 0
    THEN toFixed2(blobSize * 1000 * acc.count, 1024 * acc.sumFetch)
    ELSE 0

\* performance.memory?.usedJSHeapSize || 0: 0 where the browser has no
\* performance.memory
HeapReadings == {0, 3145728}

\* mutant: the difference of the two readings as it is
memDelta_Signed(memBefore, memAfter) == memAfter - memBefore

\* Math.max(memAfter - memBefore, 0)
memDelta(memBefore, memAfter) ==
    IF memAfter - memBefore > 0 THEN memAfter - memBefore ELSE 0

\* the record pushed for the URL (the fields the measurement decides);
\* memoryDelta is the number of bytes humanMemoryDelta prints in MB
MetricRecord(url, acc, blobSize, delta) ==
    [fileURL |-> url, fetchTimeMs |-> fetchTimeMs(acc),
     throughputKBps |-> throughputKBps(acc, blobSize),
     payloadKB |-> payloadKB(blobSize), headerSizeBytes |-> acc.headerSize,
     memoryDelta |-> delta]

\* the URL has been marked and the fetch of cycle 0 is issued
InitMeasure ==
    /\ ms = [pc |-> "cycle", url |-> "video-test1-a.mp4", i |-> 0,
             acc |-> [sumFetch |-> 0, count |-> 0, headerSize |-> 0],
             cycles |-> <<>>, blobSize |-> 0, log |-> <<>>,
             memBefore |-> 0, memAfter |-> 0, events |-> <<"fetch">>]
    /\ OldIdle
    /\ az = IdleCall
    /\ gi = IdleCall
    /\ sz = IdleCall
    /\ du = IdleCall
    /\ ls = IdleCall
    /\ lg = IdleCall
    /\ up = IdleCall

\* after cycle i the loop goes on, or avgFetch is taken and the
\* body-consuming fetch is issued
AfterCycle(i) == IF i + 1 < ITER THEN "cycle" ELSE "blob"

\* what follows the fetch of cycle i once it has settled: the fetch of the
\* next cycle, or the heap reading memBefore and the body-consuming fetch
EventsAfterCycle(i) ==
    IF i + 1 < ITER THEN <<"settled", "fetch">> ELSE <<"settled", "memBefore", "fetch">>

\* await fetch(url) of cycle i resolves with r; heap is what the reading
\* after the last cycle gives
CycleResolves(r, heap) ==
    /\ ms.pc = "cycle"
    /\ ms' = [ms EXCEPT !.acc = TimingStep(ms.i, ms.acc, r), !.i = ms.i + 1,
                        !.cycles = Append(@, r), !.pc = AfterCycle(ms.i),
                        !.events = @ \o EventsAfterCycle(ms.i),
                        !.memBefore = IF ms.i + 1 < ITER THEN @ ELSE heap]
    /\ UNCHANGED <<oldVars, ls, lg, up, du, az, gi, sz>>

\* await fetch(url) of cycle i rejects
CycleRejects(heap) ==
    /\ ms.pc = "cycle"
    /\ ms' = [ms EXCEPT !.acc = TimingCatch(ms.i, ms.acc), !.i = ms.i + 1,
                        !.cycles = Append(@, Rejected), !.pc = AfterCycle(ms.i),
                        !.events = @ \o EventsAfterCycle(ms.i),
                        !.memBefore = IF ms.i + 1 < ITER THEN @ ELSE heap]
    /\ UNCHANGED <<oldVars, ls, lg, up, du, az, gi, sz>>

\* the body-consuming fetch and blob() resolve: memAfter is read, the record
\* is pushed and, the URL being the last of the pass, setAllMetrics appends it
BlobResolves(size, heap) ==
    /\ ms.pc = "blob"
    /\ ms' = [ms EXCEPT !.blobSize = size, !.pc = "done", !.memAfter = heap,
                        !.events = @ \o <<"settled", "memAfter">>,
                        !.log = Append(@, MetricRecord(ms.url, ms.acc, size,
                                                       memDelta(ms.memBefore, heap)))]
    /\ UNCHANGED <<oldVars, ls, lg, up, du, az, gi, sz>>

\* the body-consuming fetch or blob() rejects: blobSize stays 0
BlobRejects(heap) ==
    /\ ms.pc = "blob"
    /\ ms' = [ms EXCEPT !.blobSize = 0, !.pc = "done", !.memAfter = heap,
                        !.events = @ \o <<"settled", "memAfter">>,
                        !.log = Append(@, MetricRecord(ms.url, ms.acc, 0,
                                                       memDelta(ms.memBefore, heap)))]
    /\ UNCHANGED <<oldVars, ls, lg, up, du, az, gi, sz>>

NextMeasure ==
    \/ \E r \in Responses, heap \in HeapReadings : CycleResolves(r, heap)
    \/ \E heap \in HeapReadings : CycleRejects(heap)
    \/ \E size \in BlobSizes, heap \in HeapReadings : BlobResolves(size, heap)
    \/ \E heap \in HeapReadings : BlobRejects(heap)

SpecMeasure == InitMeasure /\ [][NextMeasure]_vars

\* over the fetches of cycles 1..ITER-1 that resolved (cycle c is element
\* c + 1 of the history): the sum of their elapsed times, and their number
RECURSIVE ElapsedFrom(_, _)
ElapsedFrom(cycles, c) ==
    IF c + 1 > Len(cycles) THEN 0
    ELSE (IF cycles[c + 1].ok THEN cycles[c + 1].elapsed ELSE 0) + ElapsedFrom(cycles, c + 1)

RECURSIVE ResolvedFrom(_, _)
ResolvedFrom(cycles, c) ==
    IF c + 1 > Len(cycles) THEN 0
    ELSE (IF cycles[c + 1].ok THEN 1 ELSE 0) + ResolvedFrom(cycles, c + 1)

AllCyclesResolved == Len(ms.cycles) = ITER /\ \A c \in 1..ITER : ms.cycles[c].ok

(* C12: when all 7 fetch cycles of a URL succeed, the recorded fetchTimeMs  *)
(* is the mean (printed with two decimals) of the elapsed times of cycles   *)
(* 1 to 6, six values whatever cycle 0 took, and headerSizeBytes is the     *)
(* header size of the response of cycle 0.                                   *)
C12_MeanOfCycles1To6 ==
    (ms.pc = "done" /\ AllCyclesResolved) =>
        /\ Len(ms.log) = 1
        /\ ms.log[1].fetchTimeMs = toFixed2(ElapsedFrom(ms.cycles, 1), ITER - 1)
        /\ ms.acc.count = ITER - 1
        /\ ms.log[1].headerSizeBytes = ms.cycles[1].headerBytes

\* cycle 0 took 200 ms with 120 header bytes, cycles 1 to 6 took 7 ms with
\* 256 header bytes: the record says 7.00 ms and 120 bytes
C12_Witness ==
    /\ ms.pc = "done"
    /\ AllCyclesResolved
    /\ ms.cycles[1].elapsed = 200
    /\ \A c \in 2..ITER : ms.cycles[c].elapsed = 7
    /\ ms.log[1].fetchTimeMs = 700
    /\ ms.log[1].headerSizeBytes = 120

(* C13: whatever cycles fail, a failed cycle among 1 to 6 adds to neither   *)
(* the sum nor the denominator of the mean; when all of them fail           *)
(* fetchTimeMs and throughputKBps are 0; and in every case exactly one      *)
(* record for the URL is appended.                                           *)
C13_FailedCyclesSkipped ==
    ms.pc = "done" =>
        LET n == ResolvedFrom(ms.cycles, 1)
            total == ElapsedFrom(ms.cycles, 1)
        IN /\ Len(ms.log) = 1
           /\ ms.log[1].fileURL = ms.url
           /\ ms.acc.count = n /\ ms.acc.sumFetch = total
           /\ ms.log[1].fetchTimeMs = IF n > 0 THEN toFixed2(total, n) ELSE 0
           /\ n = 0 => ms.log[1].throughputKBps = 0

\* two witnesses in one: cycles 1, 3 and 5 failed and the other three took
\* 200 ms (mean 200.00), with a body of 100 KB
C13_Witness ==
    /\ ms.pc = "done"
    /\ \A c \in {1, 3, 5} : ~ms.cycles[c + 1].ok
    /\ \A c \in {0, 2, 4, 6} : ms.cycles[c + 1].ok /\ ms.cycles[c + 1].elapsed = 200
    /\ ms.log[1].fetchTimeMs = 20000
    /\ ms.blobSize = 102400

(* C14: throughputKBps is payloadKB * 1000 / fetchTimeMs (payloadKB =       *)
(* blobSize / 1024 and the mean fetch time, both unrounded, the quotient    *)
(* printed with two decimals) when the mean fetch time is greater than 0,   *)
(* and 0 otherwise; 100 KB at a mean of 200 ms give 500.00.                  *)
C14_Throughput ==
    ms.pc = "done" =>
        LET n == ResolvedFrom(ms.cycles, 1)
            total == ElapsedFrom(ms.cycles, 1)
        IN /\ ms.log[1].throughputKBps =
                 IF n > 0 /\ total > 0
                 THEN toFixed2(ms.blobSize * 1000 * n, 1024 * total)
                 ELSE 0
           /\ (ms.log[1].payloadKB = 10000 /\ ms.log[1].fetchTimeMs = 20000)
                 => ms.log[1].throughputKBps = 50000

\* the example: 100 KB at a mean of 200 ms over six timed cycles
C14_Witness ==
    /\ ms.pc = "done"
    /\ AllCyclesResolved
    /\ ms.log[1].payloadKB = 10000
    /\ ms.log[1].fetchTimeMs = 20000
    /\ ms.log[1].throughputKBps = 50000

\* the other branch: every timed cycle resolved within 0 ms, the mean is 0
\* and the throughput is 0 although a body of 100 KB arrived
ZeroMeanZeroThroughput ==
    /\ ms.pc = "done"
    /\ AllCyclesResolved
    /\ ms.acc.sumFetch = 0
    /\ ms.blobSize = 102400
    /\ ms.log[1].throughputKBps = 0

\* the events of a measurement in which every fetch is issued after the
\* one before it has settled: n fetches, the heap reading 'before' ahead of
\* the last one and 'after' behind it
RECURSIVE FetchesInSequence(_)
FetchesInSequence(n) ==
    IF n = 1 THEN <<"memBefore", "fetch", "settled", "memAfter">>
    ELSE <<"fetch", "settled">> \o FetchesInSequence(n - 1)

(* C23: for a URL not yet seen the collector issues exactly 8 fetches in    *)
(* strict sequence, each started only after the previous one has completed  *)
(* or failed: the 7 timing cycles and then one body-consuming fetch; the    *)
(* heap reading 'before' is taken after the last timing cycle and before    *)
(* the body fetch, 'after' once the body fetch has ended; memoryDelta is    *)
(* max(after - before, 0), never negative.                                   *)
C23_EightSequentialFetches ==
    /\ \A j \in 1..(Len(ms.events) - 1) :
          ms.events[j] = "fetch" => ms.events[j + 1] = "settled"
    /\ ms.pc = "done" =>
          /\ ms.events = FetchesInSequence(ITER + 1)
          /\ Len(ms.cycles) = 7
          /\ ms.log[1].memoryDelta >= 0
          /\ ms.log[1].memoryDelta =
                IF ms.memAfter > ms.memBefore THEN ms.memAfter - ms.memBefore ELSE 0

\* the heap was smaller after the body fetch than before it, with fetches
\* that failed among the eight: the delta recorded is 0
C23_Witness ==
    /\ ms.pc = "done"
    /\ Len(ms.events) = 18
    /\ ~ms.cycles[3].ok /\ ms.cycles[4].ok
    /\ ms.memBefore = 3145728 /\ ms.memAfter = 0
    /\ ms.log[1].memoryDelta = 0

----------------------------------------------------------------------------
(* SpecGeo: the lookupGeo() calls of one process (module perfHelpers)       *)

\* the most lookupGeo() calls of the process
MaxGeoCalls == 3

\* CONTINENT_MAP[code]: the seven own keys, what Object.prototype gives for
\* a code such as "constructor", undefined for anything else
CONTINENT_MAP(code) ==
    CASE code = "AF" -> "Africa"
      [] code = "AN" -> "Antarctica"
      [] code = "AS" -> "Asia"
      [] code = "EU" -> "Europe"
      [] code = "NA" -> "North America"
      [] code = "OC" -> "Oceania"
      [] code = "SA" -> "South America"
      [] code = "constructor" -> "[function Object]"
      [] OTHER -> "undefined"

\* v || "Unknown"
OrUnknown(v) == IF Truthy(v) THEN v ELSE "Unknown"

ContinentCodes == {"AF", "AN", "AS", "EU", "NA", "OC", "SA"}

\* the documents r.json() can resolve with ("undefined": the field is
\* missing); null stands for the body `null`
GeoBodies ==
    [country_name : {"Norway", "", "undefined"},
     continent_code : {"EU", "SA", "XX", "constructor", "undefined"}]

UnknownGeo == [country |-> "Unknown", continent |-> "Unknown"]

NoGeo == [country |-> "undefined", continent |-> "undefined"]

\* the object assigned to _geoCache in the try block
GeoFromBody(data) ==
    [country |-> OrUnknown(data.country_name),
     continent |-> OrUnknown(CONTINENT_MAP(data.continent_code))]

\* mutant: the catch block lets the failure out
LookupCatch_Rethrows == [pc |-> "rejected", value |-> NoGeo]

\* the catch block: _geoCache = { country: "Unknown", continent: "Unknown" },
\* which the call returns
LookupCatch == [pc |-> "returned", value |-> UnknownGeo]

InitGeo ==
    /\ lg = [cached |-> FALSE, cache |-> NoGeo, calls |-> <<>>, requests |-> 0,
             writes |-> 0]
    /\ OldIdle
    /\ az = IdleCall
    /\ gi = IdleCall
    /\ sz = IdleCall
    /\ du = IdleCall
    /\ ls = IdleCall
    /\ ms = IdleCall
    /\ up = IdleCall

\* lookupGeo() is called: with _geoCache set it returns it, otherwise it
\* issues the request and waits
LookupGeoCalled ==
    /\ Len(lg.calls) < MaxGeoCalls
    /\ IF lg.cached
       THEN lg' = [lg EXCEPT !.calls = Append(@, [pc |-> "returned", how |-> "cache",
                                                   body |-> NoGeo, value |-> lg.cache])]
       ELSE lg' = [lg EXCEPT !.calls = Append(@, [pc |-> "fetching", how |-> "none",
                                                   body |-> NoGeo, value |-> NoGeo]),
                             !.requests = @ + 1]
    /\ UNCHANGED <<oldVars, ls, ms, up, du, az, gi, sz>>

\* fetch(...).then(r => r.json()) of call c resolves with an object
GeoParsed(c, data) ==
    /\ c \in DOMAIN lg.calls
    /\ lg.calls[c].pc = "fetching"
    /\ lg' = [lg EXCEPT !.cached = TRUE, !.cache = GeoFromBody(data), !.writes = @ + 1,
                        !.calls[c] = [pc |-> "returned", how |-> "parsed", body |-> data,
                                      value |-> GeoFromBody(data)]]
    /\ UNCHANGED <<oldVars, ls, ms, up, du, az, gi, sz>>

\* the request of call c fails ("network"), its body does not parse
\* ("unparsable"), or it parses to null and data.country_name throws ("null")
GeoFailed(c, how) ==
    /\ c \in DOMAIN lg.calls
    /\ lg.calls[c].pc = "fetching"
    /\ lg' = [lg EXCEPT !.cached = LookupCatch.pc = "returned",
                        !.cache = IF LookupCatch.pc = "returned" THEN LookupCatch.value ELSE @,
                        !.writes = IF LookupCatch.pc = "returned" THEN @ + 1 ELSE @,
                        !.calls[c] = [pc |-> LookupCatch.pc, how |-> how, body |-> NoGeo,
                                      value |-> LookupCatch.value]]
    /\ UNCHANGED <<oldVars, ls, ms, up, du, az, gi, sz>>

NextGeo ==
    \/ LookupGeoCalled
    \/ \E c \in 1..MaxGeoCalls, data \in GeoBodies : GeoParsed(c, data)
    \/ \E c \in 1..MaxGeoCalls, how \in {"network", "unparsable", "null"} : GeoFailed(c, how)

SpecGeo == InitGeo /\ [][NextGeo]_vars

GeoReturned == {c \in DOMAIN lg.calls : lg.calls[c].pc = "returned"}

(* C15: over any sequence of lookupGeo calls in one process, also calls     *)
(* started before an earlier one has completed, the external request is     *)
(* issued at most once, every call returns the same value, and the cache is *)
(* written once and never replaced.                                          *)
C15_AsClaimed ==
    /\ lg.requests <= 1
    /\ lg.writes <= 1
    /\ \A c, e \in GeoReturned : lg.calls[c].value = lg.calls[e].value

(* C16: when the geolocation request fails (network error or unparsable     *)
(* body), lookupGeo resolves to country "Unknown" and continent "Unknown";  *)
(* no call rejects.                                                          *)
C16_FailureGivesUnknown ==
    \A c \in DOMAIN lg.calls :
        /\ lg.calls[c].pc # "rejected"
        /\ (lg.calls[c].how \in {"network", "unparsable", "null"})
              => /\ lg.calls[c].pc = "returned"
                 /\ lg.calls[c].value = UnknownGeo

\* one call failed on the network, a later one on an unparsable body
C16_Witness ==
    /\ Len(lg.calls) >= 2
    /\ lg.calls[1].how = "network" /\ lg.calls[1].value = UnknownGeo
    /\ lg.calls[2].how = "unparsable" /\ lg.calls[2].value = UnknownGeo

\* the shape the lookup expects: a country name and one of the seven codes
ExpectedShape(data) ==
    Truthy(data.country_name) /\ data.continent_code \in ContinentCodes

(* C17: when the response parses but does not have the expected shape       *)
(* (country_name missing, or continent_code missing or not one of the seven *)
(* codes), lookupGeo yields both fields "Unknown", never only one of them.  *)
C17_AsClaimed ==
    \A c \in GeoReturned :
        /\ (lg.calls[c].how = "parsed" /\ ~ExpectedShape(lg.calls[c].body))
              => lg.calls[c].value = UnknownGeo
        /\ (lg.calls[c].value.country = "Unknown")
              <=> (lg.calls[c].value.continent = "Unknown")

----------------------------------------------------------------------------
(* SpecUpload: the uploadFile calls of one adapter, and the objects the     *)
(* backend holds in the target folder                                        *)

\* the most uploadFile calls of the process
MaxUploads == 3

UploadTargets == {"r.json", "s.json"}
UploadData == {"d1", "d2"}

\* the target folder before the first call: empty, or holding r.json
InitialObjects ==
    { <<>>, << [id |-> 1, name |-> "r.json", content |-> "d0", etag |-> 1] >> }

\* the objects of the backend with this name (path)
Named(objs, name) == {k \in DOMAIN objs : objs[k].name = name}

\* the backend writes data at the path `name`: the object there is replaced,
\* or one is created (Dropbox mode overwrite, OneDrive PUT :/content, Azure
\* uploadData)
PutAtPath(objs, name, data, newId) ==
    IF Named(objs, name) = {}
    THEN Append(objs, [id |-> newId, name |-> name, content |-> data, etag |-> 1])
    ELSE [k \in DOMAIN objs |->
            IF objs[k].name = name
            THEN [objs[k] EXCEPT !.content = data, !.etag = @ + 1]
            ELSE objs[k]]

\* Drive files.create: a new object, whatever the folder holds under the name
DriveCreate(objs, name, data, newId) ==
    Append(objs, [id |-> newId, name |-> name, content |-> data, etag |-> 1])

\* Drive files.update of the object fileId: metadata name and content
DriveUpdate(objs, fileId, name, data) ==
    [k \in DOMAIN objs |->
        IF objs[k].id = fileId
        THEN [objs[k] EXCEPT !.name = name, !.content = data, !.etag = @ + 1]
        ELSE objs[k]]

\* whether the Drive upload endpoint serves the request: POST on the
\* collection creates, PATCH on a file updates
DriveServes(method, fileId) ==
    \/ method = "POST" /\ fileId = 0
    \/ method = "PATCH" /\ fileId # 0

\* mutant: every failure of the read is swallowed
ReadErrorRethrown_Never(status) == FALSE

\* catch (err) { if (!(err.response && err.response.status === 404)) throw err; }
ReadErrorRethrown(status) == status # "404"

\* if (eTag) headers['If-Match'] = eTag  (eTag 0: undefined)
WriteHeaders(eTag) == IF eTag # 0 THEN "conditional" ELSE "unconditional"

InitUpload ==
    /\ \E a \in Adapters, objs \in InitialObjects :
          up = [adapter |-> a, objs |-> objs, nextId |-> Len(objs) + 1, calls |-> <<>>,
                cachedFileId |-> 0, isCreatingFile |-> FALSE, overlap |-> FALSE]
    /\ OldIdle
    /\ az = IdleCall
    /\ gi = IdleCall
    /\ sz = IdleCall
    /\ du = IdleCall
    /\ ls = IdleCall
    /\ ms = IdleCall
    /\ lg = IdleCall

InFlight == {c \in DOMAIN up.calls : up.calls[c].pc \in {"reading", "writing"}}

NewCall(name, data) ==
    [name |-> name, data |-> data, pc |-> "writing", read |-> "none", eTag |-> 0,
     write |-> "none", method |-> "PUT", fileId |-> 0]

\* uploadFile(name, data) is called and runs up to its first await: the
\* OneDrive adapter reads the item, the Google Drive adapter picks method
\* and url from the module's state and sets isCreatingFile, the others
\* issue the write
UploadCalled(name, data) ==
    /\ Len(up.calls) < MaxUploads
    /\ LET call ==
              CASE up.adapter = "onedrive" ->
                     [NewCall(name, data) EXCEPT !.pc = "reading"]
                [] up.adapter = "googledrive" ->
                     [NewCall(name, data) EXCEPT
                         !.method = IF up.isCreatingFile THEN "POST" ELSE "PATCH",
                         !.fileId = up.cachedFileId, !.write = "unconditional"]
                [] OTHER -> [NewCall(name, data) EXCEPT !.write = "unconditional"]
       IN up' = [up EXCEPT !.calls = Append(@, call),
                           !.overlap = @ \/ InFlight # {},
                           !.isCreatingFile =
                               IF up.adapter = "googledrive" /\ up.cachedFileId = 0
                               THEN TRUE ELSE @]
    /\ UNCHANGED <<oldVars, ls, ms, lg, du, az, gi, sz>>

\* OneDrive: client.get(fullPath) resolves (the item exists); the write is
\* issued with the headers the token decides
ReadResolves(c, withETag) ==
    /\ c \in DOMAIN up.calls
    /\ up.calls[c].pc = "reading"
    /\ Named(up.objs, up.calls[c].name) # {}
    /\ LET k == CHOOSE k \in Named(up.objs, up.calls[c].name) : TRUE
           eTag == IF withETag THEN up.objs[k].etag ELSE 0
       IN up' = [up EXCEPT !.calls[c] = [@ EXCEPT !.read = "ok", !.eTag = eTag,
                                            !.write = WriteHeaders(eTag),
                                            !.pc = "writing"]]
    /\ UNCHANGED <<oldVars, ls, ms, lg, du, az, gi, sz>>

\* OneDrive: client.get(fullPath) rejects: with status 404 (no item at the
\* path), with another status, or without a response
ReadRejects(c, status) ==
    /\ c \in DOMAIN up.calls
    /\ up.calls[c].pc = "reading"
    /\ status = "404" => Named(up.objs, up.calls[c].name) = {}
    /\ IF ReadErrorRethrown(status)
       THEN up' = [up EXCEPT !.calls[c] = [@ EXCEPT !.read = status, !.pc = "threw"]]
       ELSE up' = [up EXCEPT !.calls[c] = [@ EXCEPT !.read = status,
                                              !.write = WriteHeaders(0),
                                              !.pc = "writing"]]
    /\ UNCHANGED <<oldVars, ls, ms, lg, du, az, gi, sz>>

\* the backend answers the write of call c
WriteSettles(c) ==
    /\ c \in DOMAIN up.calls
    /\ up.calls[c].pc = "writing"
    /\ LET call == up.calls[c]
           at == Named(up.objs, call.name)
           stale == /\ call.write = "conditional"
                    /\ \A k \in at : up.objs[k].etag # call.eTag
       IN CASE up.adapter = "googledrive" ->
                 IF ~DriveServes(call.method, call.fileId)
                 THEN up' = [up EXCEPT !.calls[c].pc = "threw"]
                 ELSE up' = [up EXCEPT
                        !.objs = IF call.fileId = 0
                                 THEN DriveCreate(@, call.name, call.data, up.nextId)
                                 ELSE DriveUpdate(@, call.fileId, call.name, call.data),
                        !.nextId = IF call.fileId = 0 THEN @ + 1 ELSE @,
                        !.cachedFileId = IF @ = 0
                                         THEN (IF call.fileId = 0 THEN up.nextId
                                               ELSE call.fileId)
                                         ELSE @,
                        !.calls[c].pc = "done"]
            [] up.adapter = "onedrive" /\ stale ->
                 up' = [up EXCEPT !.calls[c].pc = "threw"]
            [] OTHER ->
                 up' = [up EXCEPT
                        !.objs = PutAtPath(@, call.name, call.data, up.nextId),
                        !.nextId = IF at = {} THEN @ + 1 ELSE @,
                        !.calls[c].pc = "done"]
    /\ UNCHANGED <<oldVars, ls, ms, lg, du, az, gi, sz>>

NextUpload ==
    \/ \E name \in UploadTargets, data \in UploadData : UploadCalled(name, data)
    \/ \E c \in 1..MaxUploads, withETag \in BOOLEAN : ReadResolves(c, withETag)
    \/ \E c \in 1..MaxUploads, status \in {"404", "500", "network"} : ReadRejects(c, status)
    \/ \E c \in 1..MaxUploads : WriteSettles(c)

SpecUpload == InitUpload /\ [][NextUpload]_vars

(* C18: uploadFileToOneDrive first reads the version token of the target;   *)
(* a write is issued only after the read; with a token observed the write   *)
(* is conditional on it (If-Match); when the read reports 404 the write is  *)
(* unconditional and nothing is raised; any other failure of the read       *)
(* propagates and no write is issued.                                        *)
C18_ConditionalWrite ==
    up.adapter = "onedrive" =>
        \A c \in DOMAIN up.calls :
            LET call == up.calls[c]
            IN /\ call.write # "none" => call.read \in {"ok", "404"}
               /\ (call.read = "ok" /\ call.eTag # 0) => call.write = "conditional"
               /\ (call.read = "ok" /\ call.eTag = 0) => call.write = "unconditional"
               /\ call.read = "404" =>
                      call.write = "unconditional" /\ call.pc \in {"writing", "done"}
               /\ call.read \in {"500", "network"} =>
                      call.write = "none" /\ call.pc = "threw"

\* the first call found no item (404) and created it, the second observed
\* its token and replaced it with a conditional write, the third failed on
\* its read with status 500
C18_Witness ==
    /\ up.adapter = "onedrive"
    /\ Len(up.calls) = 3
    /\ up.calls[1].read = "404" /\ up.calls[1].pc = "done"
    /\ up.calls[2].name = up.calls[1].name
    /\ up.calls[2].read = "ok" /\ up.calls[2].eTag = 1
    /\ up.calls[2].write = "conditional" /\ up.calls[2].pc = "done"
    /\ up.calls[3].read = "500" /\ up.calls[3].pc = "threw"
    /\ \E k \in DOMAIN up.objs :
          up.objs[k].name = up.calls[2].name /\ up.objs[k].content = up.calls[2].data

\* the last call to `name` that succeeded, 0 if there is none
LastDone(name) ==
    LET done == {c \in DOMAIN up.calls : up.calls[c].name = name /\ up.calls[c].pc = "done"}
    IN IF done = {} THEN 0 ELSE CHOOSE c \in done : \A e \in done : e <= c

\* uploads made one after the other leave, for every target uploaded to,
\* one object, holding the data of the last upload, and none of them fails
\* unless its read of the token failed
OverwritesIdempotently ==
    (~up.overlap /\ InFlight = {}) =>
        /\ \A name \in UploadTargets :
              LastDone(name) # 0 =>
                  /\ Cardinality(Named(up.objs, name)) = 1
                  /\ \A k \in Named(up.objs, name) :
                        up.objs[k].content = up.calls[LastDone(name)].data
        /\ \A c \in DOMAIN up.calls :
              up.calls[c].pc = "threw" => up.calls[c].read \in {"500", "network"}

(* C19: for every adapter, uploads are idempotent overwrites: after any     *)
(* sequence of successful uploadFile calls to the same target the backend   *)
(* holds exactly one object for it, with the data of the last upload, and a *)
(* second upload to an existing target succeeds.                             *)
C19_AsClaimed == OverwritesIdempotently

\* what holds instead: the property for the three adapters that address the
\* object by its path
C19_PathAdaptersOnly == up.adapter # "googledrive" => OverwritesIdempotently

\* the requests uploadFileToGoogleDrive has sent so far
DriveRequests == IF up.adapter = "googledrive" THEN DOMAIN up.calls ELSE {}

(* C34: in every call of uploadFileToGoogleDrive, over any sequence of      *)
(* calls, method and URL agree with the cached file identity: with no file  *)
(* id cached the request is a POST to the collection endpoint, with a file  *)
(* id cached a PATCH to that file's endpoint; a PATCH to the collection or  *)
(* a POST to a file endpoint is never sent.                                  *)
C34_AsClaimed ==
    \A c \in DriveRequests :
        /\ up.calls[c].fileId = 0 => up.calls[c].method = "POST"
        /\ up.calls[c].fileId # 0 => up.calls[c].method = "PATCH"

\* what does hold: the URL alone follows the cached id, and the method is
\* PATCH in the first call of the process and POST in every later one
C34_UrlFollowsCacheMethodFollowsFlag ==
    \A c \in DriveRequests :
        /\ up.calls[c].method = (IF c = 1 THEN "PATCH" ELSE "POST")
        /\ up.calls[c].fileId # 0 => up.calls[c].fileId = up.cachedFileId

\* the calls whose request created a file in the response folder
DriveCreates ==
    {c \in DriveRequests : up.calls[c].pc = "done" /\ up.calls[c].fileId = 0}

(* C35: over any interleaving of uploadFileToGoogleDrive calls in one       *)
(* process, a call started while a create is in flight included, at most    *)
(* one response file is created in the backend, and every later upload      *)
(* targets the id of that file.                                              *)
C35_AsClaimed ==
    /\ Cardinality(DriveCreates) <= 1
    /\ \A c \in DriveRequests :
          up.calls[c].fileId # 0 => up.calls[c].fileId = up.cachedFileId

\* what does hold: calls made one after the other create one file at most
C35_OneCreateWithoutOverlap ==
    ~up.overlap => Cardinality(DriveCreates) <= 1

----------------------------------------------------------------------------
(* SpecUrl: one getAssetDownloadUrl call of an adapter                      *)
(* A file name is the sequence of its '.'-separated parts, so that           *)
(* fileName.split(".").pop() is its last element.                            *)

FileNames == { <<"a", "jpg">>, <<"Photo", "JPG">>, <<"archive", "tar", "gz">>, <<"README">> }

\* the folders an asset can be in, as the '/'-separated segments before the
\* file name
AssetFolders == { <<>>, <<"gallery", "cases", "image-1">> }

\* path_lower of an entry: Dropbox lists the path in lower case next to the
\* original name
pathLower(name) ==
    IF name = <<"Photo", "JPG">> THEN <<"photo", "jpg">> ELSE name

\* the asset references: a path string, or an object { path, name } as
\* listFiles of the Dropbox adapter returns them
AssetRefs ==
    { [kind |-> "string", folder |-> f, base |-> n, name |-> n] :
          f \in AssetFolders, n \in FileNames }
    \cup
    { [kind |-> "object", folder |-> f, base |-> pathLower(n), name |-> n] :
          f \in AssetFolders, n \in FileNames }

\* what the adapter's function takes: the OneDrive and the Google Drive
\* function take the path string only
RefKinds(adapter) ==
    IF adapter \in {"onedrive", "googledrive"} THEN {"string"} ELSE {"string", "object"}

\* fileName of the Dropbox and the Azure function:
\* typeof input === "string" ? filePath.split("/").pop() : input.name
fileNameOf(ref) == IF ref.kind = "string" THEN ref.base ELSE ref.name

\* fileName.split(".").pop()
fileTypeOf(name) == name[Len(name)]

\* a URL as far as the claim goes: the two query parameters, if set
BareUrl == [hasParams |-> FALSE, filename |-> <<>>, filetype |-> ""]

\* url.searchParams.set("filename", ...); url.searchParams.set("filetype", ...)
WithParams(name) == [hasParams |-> TRUE, filename |-> name, filetype |-> fileTypeOf(name)]

\* files.list of getAssetDownloadUrlFromGoogleDrive: the `$` of '\${folderId}'
\* and '\${name}' is escaped in the template literal, so the query holds the
\* texts ${folderId} and ${name} and finds a file only if that is its name
DriveListByName(name) == IF name = <<"${name}">> THEN <<name>> ELSE <<>>

\* the URL the function returns once its request has resolved, or "threw"
DownloadUrlOf(adapter, ref) ==
    CASE adapter \in {"dropbox", "azure"} ->
            [pc |-> "done", url |-> WithParams(fileNameOf(ref))]
      [] adapter = "onedrive" ->
            [pc |-> "done", url |-> BareUrl]
      [] adapter = "googledrive" ->
            IF DriveListByName(ref.base) = <<>>
            THEN [pc |-> "threw", url |-> BareUrl]
            ELSE [pc |-> "done", url |-> WithParams(DriveListByName(ref.base)[1])]

InitUrl ==
    /\ \E a \in Adapters, ref \in AssetRefs :
          /\ ref.kind \in RefKinds(a)
          /\ du = [adapter |-> a, ref |-> ref, pc |-> "request", url |-> BareUrl]
    /\ OldIdle
    /\ az = IdleCall
    /\ gi = IdleCall
    /\ sz = IdleCall
    /\ ls = IdleCall
    /\ ms = IdleCall
    /\ lg = IdleCall
    /\ up = IdleCall

\* the backend answers the function's request (temporary link, redirect of
\* :/content, files.list; the Azure function builds the URL from its client)
LinkResolves ==
    /\ du.pc = "request"
    /\ du' = [du EXCEPT !.pc = DownloadUrlOf(du.adapter, du.ref).pc,
                        !.url = DownloadUrlOf(du.adapter, du.ref).url]
    /\ UNCHANGED <<oldVars, ls, ms, lg, up, az, gi, sz>>

\* the request fails: the function throws
LinkFails ==
    /\ du.pc = "request"
    /\ du.adapter # "azure"
    /\ du' = [du EXCEPT !.pc = "threw"]
    /\ UNCHANGED <<oldVars, ls, ms, lg, up, az, gi, sz>>

NextUrl ==
    \/ LinkResolves
    \/ LinkFails

SpecUrl == InitUrl /\ [][NextUrl]_vars

(* C22: for every adapter and every asset reference, getDownloadUrl returns *)
(* a URL whose query holds filename equal to the asset's name and filetype  *)
(* equal to the part of that name after its last '.'.                        *)
C22_AsClaimed ==
    du.pc = "done" =>
        /\ du.url.hasParams
        /\ du.url.filename = du.ref.name
        /\ du.url.filetype = fileTypeOf(du.ref.name)

\* what holds instead: the Dropbox and the Azure function set both
\* parameters from the name, the OneDrive function returns the redirect
\* target as it is
C22_DropboxAndAzureOnly ==
    du.pc = "done" =>
        IF du.adapter \in {"dropbox", "azure"}
        THEN /\ du.url.hasParams
             /\ du.url.filename = du.ref.name
             /\ du.url.filetype = du.ref.name[Len(du.ref.name)]
        ELSE du.adapter = "onedrive" /\ ~du.url.hasParams

----------------------------------------------------------------------------
(* SpecAzure: one check of a case by the Azure adapter, over a container.   *)
(* A blob name is the sequence of its pieces, "/" being a piece of its own, *)
(* so that "image-1" is a leading part of "image-10".                        *)

\* REACT_APP_AZURE_ROOT_DIRECTORY
ROOT_DIR == <<"dev">>

\* the case folders of the container; name.split("-")[0] is the first piece
AzureCases == { <<"image", "-", "1">>, <<"image", "-", "1", "0">>, <<"audio", "-", "1">> }

\* String.prototype.replace(/\/+/g, "/"): a run of slashes becomes one
RECURSIVE CollapseSlashes(_)
CollapseSlashes(s) ==
    IF Len(s) < 2 THEN s
    ELSE IF s[1] = "/" /\ s[2] = "/" THEN CollapseSlashes(Tail(s))
    ELSE <<s[1]>> \o CollapseSlashes(Tail(s))

\* `gallery/cases/${name}`, the path validateCasesInAzure gives to the check
CasePath(name) == <<"gallery", "/", "cases", "/">> \o name

\* `${ROOT_DIR}/${path}`.replace(/\/+/g, "/")
AzurePrefix(path) == CollapseSlashes(ROOT_DIR \o <<"/">> \o path)

\* the name of a blob under a case folder
BlobIn(name, rest) == AzurePrefix(CasePath(name)) \o <<"/">> \o rest

\* the blobs a container can hold, in the order the service lists them
BlobUniverse ==
    << BlobIn(<<"audio", "-", "1">>, <<"a.mp3">>),
       BlobIn(<<"audio", "-", "1">>, <<"b.mp3">>),
       BlobIn(<<"image", "-", "1">>, <<"a.jpg">>),
       BlobIn(<<"image", "-", "1">>, <<"b.jpg">>),
       BlobIn(<<"image", "-", "1">>, <<"c.jpg">>),
       BlobIn(<<"image", "-", "1">>, <<"thumbs", "/", "t.jpg">>),
       BlobIn(<<"image", "-", "1", "0">>, <<"a.jpg">>) >>

\* a blob name begins with the prefix
startsWith(s, p) == Len(p) <= Len(s) /\ SubSeq(s, 1, Len(p)) = p

\* client.listBlobsFlat({ prefix }): every blob whose name begins with prefix
listBlobsFlat(container, prefix) ==
    SelectSeq(container, LAMBDA b : startsWith(b, prefix))

\* blob.name.includes(substring) with the default substring ""
includes(s, substring) == substring = <<>> \/ \E i \in 1..Len(s) : <<s[i]>> = substring

InitAzure ==
    /\ \E name \in AzureCases, held \in SUBSET (1..Len(BlobUniverse)) :
          az = [pc |-> "listing", name |-> name,
                container |-> SelectIdx(BlobUniverse,
                                        [i \in 1..Len(BlobUniverse) |-> i \in held], 1),
                pos |-> 0, assets |-> <<>>, result |-> FALSE]
    /\ OldIdle
    /\ ls = IdleCall
    /\ ms = IdleCall
    /\ lg = IdleCall
    /\ up = IdleCall
    /\ du = IdleCall
    /\ gi = IdleCall
    /\ sz = IdleCall

\* what the iterator of the call yields
AzureListed == listBlobsFlat(az.container, AzurePrefix(CasePath(az.name)))

\* for await (const blob of iter): the next blob is pushed when it includes
\* the substring
AzureBlobYielded ==
    /\ az.pc = "listing"
    /\ az.pos < Len(AzureListed)
    /\ az' = [az EXCEPT !.pos = @ + 1,
                        !.assets = IF includes(AzureListed[az.pos + 1], <<>>)
                                   THEN Append(@, AzureListed[az.pos + 1]) ELSE @]
    /\ UNCHANGED <<oldVars, ls, ms, lg, up, du, gi, sz>>

\* the iterator is exhausted: listFilesFromAzure returns and the switch of
\* checkAssetsInAzure decides
AzureListingEnds ==
    /\ az.pc = "listing"
    /\ az.pos = Len(AzureListed)
    /\ az' = [az EXCEPT !.pc = "returned",
                        !.result = checkAssetsInAzure(Len(az.assets),
                                                      CaseTypeOfName(az.name))]
    /\ UNCHANGED <<oldVars, ls, ms, lg, up, du, gi, sz>>

\* a page request of the iterator fails: the check rejects
AzureListingFails ==
    /\ az.pc = "listing"
    /\ az' = [az EXCEPT !.pc = "threw"]
    /\ UNCHANGED <<oldVars, ls, ms, lg, up, du, gi, sz>>

NextAzure ==
    \/ AzureBlobYielded
    \/ AzureListingEnds
    \/ AzureListingFails

SpecAzure == InitAzure /\ [][NextAzure]_vars

\* the files directly in the folder of the case
OwnFiles ==
    LET prefix == AzurePrefix(CasePath(az.name))
    IN SelectSeq(az.container,
                 LAMBDA b : startsWith(b, prefix \o <<"/">>) /\ Len(b) = Len(prefix) + 2)

(* C36: in the Azure adapter the count that validates a case is the number  *)
(* of files in the case's own folder: blobs of a sibling folder whose name  *)
(* begins with the case's name, and blobs in nested sub-folders, do not     *)
(* change the result of checkAssetsInAzure.                                  *)
C36_AsClaimed ==
    az.pc = "returned" =>
        az.result = checkAssetsInAzure(Len(OwnFiles), CaseTypeOfName(az.name))

\* what does hold: the count is that of all blobs whose name begins with the
\* path of the case
C36_CountsWholePrefix ==
    az.pc = "returned" =>
        /\ az.assets = AzureListed
        /\ az.result = checkAssetsInAzure(Len(AzureListed), CaseTypeOfName(az.name))

----------------------------------------------------------------------------
(* SpecInit: the callers of initializeGoogleDrive in one process *)

\* the most calls of initializeGoogleDrive in the process
MaxCallers == 3

\* if (gapiInitialized) return; otherwise the promise around gapi.load is
\* awaited
EnterInit(flag) == [pc |-> IF flag THEN "returned" ELSE "loading"]

InitInit ==
    /\ gi = [gapiInitialized |-> FALSE, callers |-> <<>>, inits |-> 0, signIns |-> 0]
    /\ OldIdle
    /\ ls = IdleCall
    /\ ms = IdleCall
    /\ lg = IdleCall
    /\ up = IdleCall
    /\ du = IdleCall
    /\ az = IdleCall
    /\ sz = IdleCall

\* n calls are made in one synchronous run: one by an upload or a listing,
\* several by the cases.map of validateCasesInGoogleDrive, whose every check
\* reaches await initializeGoogleDrive() before any of them goes on
InitializeCalled(n) ==
    /\ Len(gi.callers) + n <= MaxCallers
    /\ gi' = [gi EXCEPT !.callers = @ \o [i \in 1..n |-> EnterInit(gi.gapiInitialized)]]
    /\ UNCHANGED <<oldVars, ls, ms, lg, up, du, az, sz>>

\* the callback of gapi.load runs for caller c: gapi.client.init is called
GapiLoaded(c) ==
    /\ c \in DOMAIN gi.callers
    /\ gi.callers[c].pc = "loading"
    /\ gi' = [gi EXCEPT !.callers[c].pc = "init", !.inits = @ + 1]
    /\ UNCHANGED <<oldVars, ls, ms, lg, up, du, az, sz>>

\* gapi.client.init resolves for caller c: signIn() is called
ClientInitResolves(c) ==
    /\ c \in DOMAIN gi.callers
    /\ gi.callers[c].pc = "init"
    /\ gi' = [gi EXCEPT !.callers[c].pc = "signIn", !.signIns = @ + 1]
    /\ UNCHANGED <<oldVars, ls, ms, lg, up, du, az, sz>>

\* signIn() resolves for caller c: gapiInitialized = true; resolve()
SignInResolves(c) ==
    /\ c \in DOMAIN gi.callers
    /\ gi.callers[c].pc = "signIn"
    /\ gi' = [gi EXCEPT !.callers[c].pc = "resolved", !.gapiInitialized = TRUE]
    /\ UNCHANGED <<oldVars, ls, ms, lg, up, du, az, sz>>

\* init or sign-in fails for caller c: reject(new Error(...))
InitOrSignInFails(c) ==
    /\ c \in DOMAIN gi.callers
    /\ gi.callers[c].pc \in {"init", "signIn"}
    /\ gi' = [gi EXCEPT !.callers[c].pc = "rejected"]
    /\ UNCHANGED <<oldVars, ls, ms, lg, up, du, az, sz>>

NextInit ==
    \/ \E n \in 1..MaxCallers : InitializeCalled(n)
    \/ \E c \in 1..MaxCallers : GapiLoaded(c)
    \/ \E c \in 1..MaxCallers : ClientInitResolves(c)
    \/ \E c \in 1..MaxCallers : SignInResolves(c)
    \/ \E c \in 1..MaxCallers : InitOrSignInFails(c)

SpecInit == InitInit /\ [][NextInit]_vars

(* C37: initializeGoogleDrive performs the client initialisation and the    *)
(* sign-in at most once per process over any interleaving of callers, the   *)
(* concurrent checks of validateCasesInGoogleDrive included.                 *)
C37_AsClaimed == gi.inits <= 1 /\ gi.signIns <= 1

\* what does hold: once gapiInitialized is true it stays true, and a call
\* made from then on starts no initialisation
C37_NoInitAfterFlagSet ==
    [][gi.gapiInitialized =>
          /\ gi'.gapiInitialized
          /\ \A c \in DOMAIN gi'.callers \ DOMAIN gi.callers :
                gi'.callers[c].pc = "returned"]_vars

----------------------------------------------------------------------------
(* SpecSize: the module-level SIZE_MAP and the size field of the records *)

\* fileName.split("-"), each part given as its first character and the rest
split(fileName) ==
    CASE fileName = "video-test1-a.mp4" -> << <<"v", "ideo">>, <<"t", "est1">>, <<"a", ".mp4">> >>
      [] fileName = "video-test1-b.mp4" -> << <<"v", "ideo">>, <<"t", "est1">>, <<"b", ".mp4">> >>
      [] fileName = "video-test2-a.mp4" -> << <<"v", "ideo">>, <<"t", "est2">>, <<"a", ".mp4">> >>
      [] fileName = "audio-test1-a.mp3" -> << <<"a", "udio">>, <<"t", "est1">>, <<"a", ".mp3">> >>
      [] fileName = "audio-test1-b.mp3" -> << <<"a", "udio">>, <<"t", "est1">>, <<"b", ".mp3">> >>
      [] fileName = "audio-test2-a.mp3" -> << <<"a", "udio">>, <<"t", "est2">>, <<"a", ".mp3">> >>
      [] fileName = "image-test-a.jpg" -> << <<"i", "mage">>, <<"t", "est">>, <<"a", ".jpg">> >>
      [] fileName = "image-test-b.jpg" -> << <<"i", "mage">>, <<"t", "est">>, <<"b", ".jpg">> >>
      [] fileName = "text-sample-a.txt" -> << <<"t", "ext">>, <<"s", "ample">>, <<"a", ".txt">> >>
      [] OTHER -> << <<"o", "ther.bin">> >>

\* String.prototype.charAt(0)
charAt0(part) == part[1]

\* SIZE_LABEL_MAP[key], "undefined" for a key it does not have
SIZE_LABEL_MAP(key) ==
    CASE key = "a" -> "small"
      [] key = "b" -> "medium"
      [] key = "c" -> "large"
      [] OTHER -> "undefined"

\* one step of the reduce that builds SIZE_MAP:
\* map[fileName] = SIZE_LABEL_MAP[fileName.split("-")[1].charAt(0)] || "unknown"
SizeMapStep(map, fileName) ==
    LET key == charAt0(split(fileName)[2])
        label == IF Truthy(SIZE_LABEL_MAP(key)) THEN SIZE_LABEL_MAP(key) ELSE "unknown"
    IN [n \in DOMAIN map \cup {fileName} |-> IF n = fileName THEN label ELSE map[n]]

\* the URLs records are built for: the files of the manifest under the
\* folder the wrapper serves them from, and one file the manifest lacks
SizeUrls == {<<"metrics", n>> : n \in AllUrls \cup {"other.bin"}}

\* url.split("/").pop()
fileNameOfUrl(url) == url[Len(url)]

\* SIZE_MAP[url.split("/").pop()] || "unknown"
SizeField(map, url) ==
    IF fileNameOfUrl(url) \in DOMAIN map /\ Truthy(map[fileNameOfUrl(url)])
    THEN map[fileNameOfUrl(url)] ELSE "unknown"

InitSize ==
    /\ sz = [SIZE_MAP |-> [n \in {} |-> "undefined"], i |-> 0,
             records |-> [u \in {} |-> "undefined"]]
    /\ OldIdle
    /\ ls = IdleCall
    /\ ms = IdleCall
    /\ lg = IdleCall
    /\ up = IdleCall
    /\ du = IdleCall
    /\ az = IdleCall
    /\ gi = IdleCall

\* module load: the reduce takes the next file name of ALL_FILES
SizeMapReduce ==
    /\ sz.i < Len(ALL_FILES)
    /\ sz' = [sz EXCEPT !.i = @ + 1,
                        !.SIZE_MAP = SizeMapStep(@, ALL_FILES[sz.i + 1].name)]
    /\ UNCHANGED <<oldVars, ls, ms, lg, up, du, az, gi>>

\* capture() builds the record of a URL: its size field
SizeRecordBuilt(url) ==
    /\ sz.i = Len(ALL_FILES)
    /\ url \notin DOMAIN sz.records
    /\ sz' = [sz EXCEPT !.records =
                 [u \in DOMAIN @ \cup {url} |->
                     IF u = url THEN SizeField(sz.SIZE_MAP, url) ELSE @[u]]]
    /\ UNCHANGED <<oldVars, ls, ms, lg, up, du, az, gi>>

NextSize ==
    \/ SizeMapReduce
    \/ \E url \in SizeUrls : SizeRecordBuilt(url)

SpecSize == InitSize /\ [][NextSize]_vars

\* the letter of a manifest name <caseDir>-<letter>.<ext>
LetterOf(fileName) == charAt0(split(fileName)[Len(split(fileName))])

\* a to small, b to medium, c to large, unknown for any other letter
LabelOfLetter(letter) ==
    CASE letter = "a" -> "small"
      [] letter = "b" -> "medium"
      [] letter = "c" -> "large"
      [] OTHER -> "unknown"

(* C38: for every file name of the manifest ALL_FILES, of the form          *)
(* <caseDir>-<letter>.<ext>, SIZE_MAP maps the name to the size label of    *)
(* its letter (a small, b medium, c large, unknown for any other letter),   *)
(* and this label is the size field of the file's MetricRecord.             *)
C38_AsClaimed ==
    /\ \A n \in DOMAIN sz.SIZE_MAP : sz.SIZE_MAP[n] = LabelOfLetter(LetterOf(n))
    /\ \A u \in DOMAIN sz.records :
          fileNameOfUrl(u) \in AllUrls =>
              sz.records[u] = LabelOfLetter(LetterOf(fileNameOfUrl(u)))

\* what does hold: every entry of SIZE_MAP, and the size field of every
\* record, is "unknown"
C38_EverySizeUnknown ==
    /\ \A n \in DOMAIN sz.SIZE_MAP : sz.SIZE_MAP[n] = "unknown"
    /\ \A u \in DOMAIN sz.records : sz.records[u] = "unknown"

====
